---- MODULE Spec2Model ----
(***************************************************************************)
(* A model of the document-understanding core of doc6: the semantic        *)
(* classifier (core/classification/classifier.py), the W-2 template        *)
(* tables and template matcher (core/extraction/w2_template.py), the W-2   *)
(* extractor with its fallback chains and post-pass repairs                *)
(* (core/extraction/document_extractors/w2_extractor.py), the generic      *)
(* extractor and the registry (document_extractors/__init__.py) and the    *)
(* two callers of extract_fields (targeted_extractor.py,                   *)
(* processor_service.py).                                                  *)
(*                                                                         *)
(* A Python str is a sequence of one-character strings.  Regular           *)
(* expressions are sequences of nodes, matched by a backtracking matcher   *)
(* with the priorities of Python's re (leftmost start, greedy or lazy      *)
(* repetition, alternatives in order).  Coordinates are integers in        *)
(* hundredths of the unit of the source (0.7 is 70).                       *)
(***************************************************************************)
EXTENDS Integers, Sequences, FiniteSets, TLC

\* ------------------------------------------------------------------------
\* Characters and Python str methods
\* ------------------------------------------------------------------------

UpperSeq == <<"A","B","C","D","E","F","G","H","I","J","K","L","M",
              "N","O","P","Q","R","S","T","U","V","W","X","Y","Z">>
LowerSeq == <<"a","b","c","d","e","f","g","h","i","j","k","l","m",
              "n","o","p","q","r","s","t","u","v","w","x","y","z">>
Upper == {UpperSeq[i] : i \in 1..26}
Lower == {LowerSeq[i] : i \in 1..26}
Digits == {"0","1","2","3","4","5","6","7","8","9"}
Alnum == Upper \cup Lower \cup Digits
UpperDigits == Upper \cup Digits
Letters == Upper \cup Lower
WordChars == Alnum \cup {"_"}
Space == {" ", "\n", "\t"}

MinOf(a, b) == IF a <= b THEN a ELSE b
MaxOf(a, b) == IF a >= b THEN a ELSE b
Least(S) == CHOOSE x \in S : \A y \in S : x <= y
Most(S) == CHOOSE x \in S : \A y \in S : x >= y

\* str.lower() and str.upper() of one character
ToLower(c) == IF c \in Upper THEN LowerSeq[CHOOSE i \in 1..26 : UpperSeq[i] = c] ELSE c
ToUpper(c) == IF c \in Lower THEN UpperSeq[CHOOSE i \in 1..26 : LowerSeq[i] = c] ELSE c

\* str.lower()
StrLower(s) == [i \in 1..Len(s) |-> ToLower(s[i])]

\* str.isupper(): at least one cased character and no lower-case one
IsUpperStr(s) == /\ \E i \in 1..Len(s) : s[i] \in Upper
                 /\ \A i \in 1..Len(s) : s[i] \notin Lower

\* t in s (substring test)
Contains(s, t) == \E i \in 1..(Len(s) - Len(t) + 1) : SubSeq(s, i, i + Len(t) - 1) = t

\* s.find(t): the index (from 0) of the first occurrence, -1 when there is none
StrFind(s, t) ==
    IF Contains(s, t)
    THEN (CHOOSE i \in 1..(Len(s) - Len(t) + 1) :
             /\ SubSeq(s, i, i + Len(t) - 1) = t
             /\ \A j \in 1..(i - 1) : SubSeq(s, j, j + Len(t) - 1) # t) - 1
    ELSE -1

RECURSIVE StrReplaceFrom(_, _, _)
\* s.replace(t, ""), scanning from position i: non-overlapping occurrences
\* are removed left to right; the result is not scanned again
StrReplaceFrom(s, t, i) ==
    IF i > Len(s) THEN <<>>
    ELSE IF Len(t) > 0 /\ i + Len(t) - 1 <= Len(s) /\ SubSeq(s, i, i + Len(t) - 1) = t
         THEN StrReplaceFrom(s, t, i + Len(t))
         ELSE <<s[i]>> \o StrReplaceFrom(s, t, i + 1)

\* s.replace(t, "")
StrRemove(s, t) == StrReplaceFrom(s, t, 1)

RECURSIVE StrLStrip(_)
StrLStrip(s) == IF s # <<>> /\ Head(s) \in Space THEN StrLStrip(Tail(s)) ELSE s

RECURSIVE StrRStrip(_)
StrRStrip(s) == IF s # <<>> /\ s[Len(s)] \in Space
                THEN StrRStrip(SubSeq(s, 1, Len(s) - 1)) ELSE s

\* s.strip()
StrStrip(s) == StrRStrip(StrLStrip(s))

RECURSIVE JoinWith(_, _)
\* sep.join(parts)
JoinWith(parts, sep) ==
    IF parts = <<>> THEN <<>>
    ELSE IF Len(parts) = 1 THEN parts[1]
    ELSE parts[1] \o sep \o JoinWith(Tail(parts), sep)

\* s.split('\n')[0]
FirstLine(s) ==
    IF \E i \in 1..Len(s) : s[i] = "\n"
    THEN SubSeq(s, 1, (CHOOSE i \in 1..Len(s) :
                         s[i] = "\n" /\ \A j \in 1..(i - 1) : s[j] # "\n") - 1)
    ELSE s

\* ------------------------------------------------------------------------
\* Regular expressions (Python's re)
\* ------------------------------------------------------------------------

\* Nodes.  A regular expression is a sequence of nodes.
In(S) == [t |-> "in", s |-> S]               \* a character of the class S
NotIn(S) == [t |-> "notin", s |-> S]         \* [^S]
Dot == [t |-> "dot"]                         \* .
Rep(r, lo, hi, greedy) == [t |-> "rep", r |-> r, lo |-> lo, hi |-> hi, g |-> greedy]
Alt(alts) == [t |-> "alt", a |-> alts]       \* (?:a1|a2|...)
WordB == [t |-> "wb"]                        \* \b
EndOfText == [t |-> "eot"]                   \* $
StartOfText == [t |-> "sot"]                 \* ^
NotBehind(S) == [t |-> "nlb", s |-> S]       \* (?<!S)
NotAhead(S) == [t |-> "nla", s |-> S]        \* (?!S)
GroupOpen == [t |-> "open"]                  \* the ( of group 1
GroupClose == [t |-> "close"]                \* the ) of group 1

\* Unbounded repetition: no text of the model is this long
Unbounded == 1000

\* the literal text cs
Lit(cs) == [i \in 1..Len(cs) |-> In({cs[i]})]
Star(r) == Rep(r, 0, Unbounded, TRUE)         \* r*
LazyStar(r) == Rep(r, 0, Unbounded, FALSE)    \* r*?
Plus(r) == Rep(r, 1, Unbounded, TRUE)         \* r+
Opt(r) == Rep(r, 0, 1, TRUE)                  \* r?

\* flags
NoFlags == [ic |-> FALSE, dotall |-> FALSE]
IgnoreCase == [ic |-> TRUE, dotall |-> FALSE]
IgnoreCaseDotAll == [ic |-> TRUE, dotall |-> TRUE]

NoMatch == <<-1, 0, 0>>

InClass(c, S, ic) == c \in S \/ (ic /\ (ToLower(c) \in S \/ ToUpper(c) \in S))

IsWordAt(s, i) == i >= 1 /\ i <= Len(s) /\ s[i] \in WordChars

RECURSIVE MatchHere(_, _, _, _, _, _)
\* The first successful way, in backtracking order, to match the whole of re
\* at position i of s: <<end, start of group 1, end of group 1>>, or NoMatch.
MatchHere(re, s, i, f, gs, ge) ==
    IF re = <<>> THEN <<i, gs, ge>>
    ELSE LET h == Head(re)
             rest == Tail(re)
         IN CASE h.t = "in" ->
                   IF i <= Len(s) /\ InClass(s[i], h.s, f.ic)
                   THEN MatchHere(rest, s, i + 1, f, gs, ge) ELSE NoMatch
              [] h.t = "notin" ->
                   IF i <= Len(s) /\ ~InClass(s[i], h.s, f.ic)
                   THEN MatchHere(rest, s, i + 1, f, gs, ge) ELSE NoMatch
              [] h.t = "dot" ->
                   IF i <= Len(s) /\ (f.dotall \/ s[i] # "\n")
                   THEN MatchHere(rest, s, i + 1, f, gs, ge) ELSE NoMatch
              [] h.t = "wb" ->
                   IF IsWordAt(s, i - 1) # IsWordAt(s, i)
                   THEN MatchHere(rest, s, i, f, gs, ge) ELSE NoMatch
              [] h.t = "eot" ->
                   IF i = Len(s) + 1 \/ (i = Len(s) /\ s[i] = "\n")
                   THEN MatchHere(rest, s, i, f, gs, ge) ELSE NoMatch
              [] h.t = "sot" ->
                   IF i = 1 THEN MatchHere(rest, s, i, f, gs, ge) ELSE NoMatch
              [] h.t = "nlb" ->
                   IF ~(i > 1 /\ InClass(s[i - 1], h.s, f.ic))
                   THEN MatchHere(rest, s, i, f, gs, ge) ELSE NoMatch
              [] h.t = "nla" ->
                   IF ~(i <= Len(s) /\ InClass(s[i], h.s, f.ic))
                   THEN MatchHere(rest, s, i, f, gs, ge) ELSE NoMatch
              [] h.t = "open" -> MatchHere(rest, s, i, f, i, ge)
              [] h.t = "close" -> MatchHere(rest, s, i, f, gs, i)
              [] h.t = "alt" ->
                   IF h.a = <<>> THEN NoMatch
                   ELSE LET first == MatchHere(Head(h.a) \o rest, s, i, f, gs, ge)
                        IN IF first # NoMatch THEN first
                           ELSE MatchHere(<<Alt(Tail(h.a))>> \o rest, s, i, f, gs, ge)
              [] h.t = "rep" ->
                   IF Len(h.r) = 1 /\ h.r[1].t \in {"in", "notin", "dot"}
                   THEN \* one character repeated: the counts k that the text allows
                        \* and after which the rest matches; greedy takes the
                        \* largest, lazy the smallest
                        LET Fits(j) == /\ j <= Len(s)
                                       /\ CASE h.r[1].t = "in" -> InClass(s[j], h.r[1].s, f.ic)
                                            [] h.r[1].t = "notin" -> ~InClass(s[j], h.r[1].s, f.ic)
                                            [] h.r[1].t = "dot" -> f.dotall \/ s[j] # "\n"
                            Ks == {k \in MaxOf(0, h.lo)..MinOf(h.hi, Len(s) - i + 1) :
                                      /\ \A j \in i..(i + k - 1) : Fits(j)
                                      /\ MatchHere(rest, s, i + k, f, gs, ge) # NoMatch}
                        IN IF Ks = {} THEN NoMatch
                           ELSE MatchHere(rest, s, i + (IF h.g THEN Most(Ks) ELSE Least(Ks)),
                                          f, gs, ge)
                   ELSE IF h.g
                   THEN LET more == IF h.hi > 0
                                    THEN MatchHere(h.r \o <<Rep(h.r, h.lo - 1, h.hi - 1, TRUE)>> \o rest,
                                                   s, i, f, gs, ge)
                                    ELSE NoMatch
                        IN IF more # NoMatch THEN more
                           ELSE IF h.lo <= 0 THEN MatchHere(rest, s, i, f, gs, ge) ELSE NoMatch
                   ELSE LET skip == IF h.lo <= 0 THEN MatchHere(rest, s, i, f, gs, ge) ELSE NoMatch
                        IN IF skip # NoMatch THEN skip
                           ELSE IF h.hi > 0
                                THEN MatchHere(h.r \o <<Rep(h.r, h.lo - 1, h.hi - 1, FALSE)>> \o rest,
                                               s, i, f, gs, ge)
                                ELSE NoMatch

\* A match: found, the span [from, to) of the match and of group 1
NoneMatch == [found |-> FALSE, from |-> 0, to |-> 0, gs |-> 0, ge |-> 0]

\* the match that MatchHere found from position from
AsMatch(from, m) ==
    IF m = NoMatch THEN NoneMatch
    ELSE [found |-> TRUE, from |-> from, to |-> m[1], gs |-> m[2], ge |-> m[3]]

\* re.match(re, s)
ReMatch(re, s, f) == AsMatch(1, MatchHere(re, s, 1, f, 0, 0))

\* the leftmost match starting at position i or later
SearchFrom(re, s, i, f) ==
    LET At(Starts) == IF Starts = {} THEN NoneMatch
                      ELSE LET From(from) == AsMatch(from, MatchHere(re, s, from, f, 0, 0))
                           IN From(Least(Starts))
    IN At({j \in i..(Len(s) + 1) : MatchHere(re, s, j, f, 0, 0) # NoMatch})

\* re.search(re, s)
ReSearch(re, s, f) == SearchFrom(re, s, 1, f)

\* m.group(0) and m.group(1)
Group0(s, m) == SubSeq(s, m.from, m.to - 1)
Group1(s, m) == SubSeq(s, m.gs, m.ge - 1)

RECURSIVE FindAllFrom(_, _, _, _)
\* re.findall(re, s) for a pattern with one group: the group-1 texts of the
\* successive non-overlapping matches
FindAllFrom(re, s, i, f) ==
    LET Rest(m) == IF ~m.found THEN <<>>
                   ELSE <<Group1(s, m)>> \o
                        FindAllFrom(re, s, IF m.to > m.from THEN m.to ELSE m.to + 1, f)
    IN Rest(SearchFrom(re, s, i, f))

ReFindAll(re, s, f) == FindAllFrom(re, s, 1, f)

\* ------------------------------------------------------------------------
\* Optional values: None, a str, or a raised exception
\* ------------------------------------------------------------------------

None == [k |-> "none", v |-> <<>>]
Some(v) == [k |-> "val", v |-> v]
Raised == [k |-> "raise", v |-> <<>>]

\* Python truthiness of an optional str: neither None nor ""
Truthy(o) == o.k = "val" /\ o.v # <<>>

\* the first of two results that is not None: "if match: return ..."
OrElse(a, b) == IF a.k # "none" THEN a ELSE b

\* m.group(1) of a match, None without a match
FoundGroup1(s, m) == IF m.found THEN Some(Group1(s, m)) ELSE None

\* m.group(0) of a match, None without a match
FoundGroup0(s, m) == IF m.found THEN Some(Group0(s, m)) ELSE None

\* value.strip() of a result that is a str
Stripped(o) == IF o.k = "val" THEN Some(StrStrip(o.v)) ELSE o

\* seq[i] for the least i of S, None when S is empty
AtLeast(seq, S) == IF S = {} THEN None ELSE Some(seq[Least(S)])

\* the first element of a list, None when it is empty
FirstOf(seq) == IF seq = <<>> THEN None ELSE Some(seq[1])

\* found[p] for the least p where it is not None; None when there is none
FirstFound(found) ==
    LET At == {p \in DOMAIN found : found[p] # None}
    IN IF At = {} THEN None ELSE found[Least(At)]

\* ------------------------------------------------------------------------
\* Patterns of w2_extractor.py and w2_template.py
\* ------------------------------------------------------------------------

D == In(Digits)
Sp == In(Space)                              \* \s
Sps == Plus(<<Sp>>)                          \* \s+
AnyLazy == LazyStar(<<Dot>>)                 \* .*?

\* \$?\d{1,3}(?:,\d{3})*(?:\.\d{1,2})?
CurrencyPattern ==
    <<Opt(<<In({"$"})>>), Rep(<<D>>, 1, 3, TRUE), Star(<<In({","}), D, D, D>>),
      Opt(<<In({"."}), Rep(<<D>>, 1, 2, TRUE)>>)>>

\* (?:\$|)(\d{1,3}(?:,\d{3})*(?:\.\d{2}))
TemplateCurrencyPattern ==
    <<Alt(<< <<In({"$"})>>, <<>> >>), GroupOpen, Rep(<<D>>, 1, 3, TRUE),
      Star(<<In({","}), D, D, D>>), In({"."}), D, D, GroupClose>>

\* \d{3}-\d{2}-\d{4}
SsnShape == <<D, D, D, In({"-"}), D, D, In({"-"}), D, D, D, D>>
\* \d{2}-\d{7}
EinShape == <<D, D, In({"-"}), D, D, D, D, D, D, D>>
\* \d{2,3}-\d{2,7}-?\d{0,4}
TemplateIdPattern ==
    <<Rep(<<D>>, 2, 3, TRUE), In({"-"}), Rep(<<D>>, 2, 7, TRUE), Opt(<<In({"-"})>>),
      Rep(<<D>>, 0, 4, TRUE)>>
\* 20\d{2}
YearShape == <<In({"2"}), In({"0"}), D, D>>
\* ^[A-Z0-9]+$
UpperAlnumWord == <<StartOfText, Plus(<<In(UpperDigits)>>), EndOfText>>

\* ------------------------------------------------------------------------
\* W2Extractor: the fallback strategies (w2_extractor.py)
\* ------------------------------------------------------------------------

\* (?:d\s+)?Control\s+number.*?([A-Z0-9]+)
ControlPattern ==
    <<Opt(<<In({"d"}), Sps>>)>> \o Lit(<<"C", "o", "n", "t", "r", "o", "l">>) \o <<Sps>> \o Lit(<<"n", "u", "m", "b", "e", "r">>) \o
    <<AnyLazy, GroupOpen, Plus(<<In(UpperDigits)>>), GroupClose>>

\* The look-ahead loop shared by _extract_control_number and
\* _extract_employee_name: the first word after a word containing "control"
\* (at most five words further) that is all upper-case letters and digits.
ControlNumberAfterLabel(ws) ==
    LET n == Len(ws)
        Among(UpperWords) ==
            LET Cand(i) == {j \in (i + 1)..MinOf(i + 5, n) : j \in UpperWords}
                Is == {i \in 1..n : /\ Contains(StrLower(ws[i]), <<"c", "o", "n", "t", "r", "o", "l">>)
                                    /\ i + 2 <= n
                                    /\ Cand(i) # {}}
            IN IF Is = {} THEN None ELSE Some(ws[Least(Cand(Least(Is)))])
    IN Among({j \in 1..n : ReMatch(UpperAlnumWord, ws[j], NoFlags).found})

\* W2Extractor._extract_control_number
ExtractControlNumber(ws, cs, text) ==
    OrElse(Stripped(FoundGroup1(text, ReSearch(ControlPattern, text, IgnoreCaseDotAll))),
           ControlNumberAfterLabel(ws))

\* Employee's\s+first\s+name.*?([A-Z][a-z]+\s+[A-Z](?:\s|\.|[a-z]*)\s+[A-Z][a-zA-Z]+)
NamePattern ==
    Lit(<<"E", "m", "p", "l", "o", "y", "e", "e", "'", "s">>) \o <<Sps>> \o Lit(<<"f", "i", "r", "s", "t">>) \o <<Sps>> \o Lit(<<"n", "a", "m", "e">>) \o
    <<AnyLazy, GroupOpen, In(Upper), Plus(<<In(Lower)>>), Sps, In(Upper),
      Alt(<< <<Sp>>, <<In({"."})>>, <<Star(<<In(Lower)>>)>> >>), Sps,
      In(Upper), Plus(<<In(Letters)>>), GroupClose>>

\* (?:e\s+)?Employee's\s+(?:first\s+)?name.*?
\*   ([A-Z][a-zA-Z]*\s+(?:[A-Z]\.?\s+)?[A-Z][a-zA-Z]*(?:\s+[A-Z][a-zA-Z]*)?)
EmployeeBoxPattern ==
    <<Opt(<<In({"e"}), Sps>>)>> \o Lit(<<"E", "m", "p", "l", "o", "y", "e", "e", "'", "s">>) \o <<Sps, Opt(Lit(<<"f", "i", "r", "s", "t">>) \o <<Sps>>)>> \o
    Lit(<<"n", "a", "m", "e">>) \o
    <<AnyLazy, GroupOpen, In(Upper), Star(<<In(Letters)>>), Sps,
      Opt(<<In(Upper), Opt(<<In({"."})>>), Sps>>),
      In(Upper), Star(<<In(Letters)>>),
      Opt(<<Sps, In(Upper), Star(<<In(Letters)>>)>>), GroupClose>>

\* (?:Jane|John)
JaneJohnPattern == <<Alt(<<Lit(<<"J", "a", "n", "e">>), Lit(<<"J", "o", "h", "n">>)>>)>>

\* the removal of the control number from a name found by a fallback
WithoutControl(name, control) ==
    IF Truthy(control) /\ Contains(name, control.v)
    THEN StrStrip(StrRemove(name, control.v)) ELSE name

\* W2Extractor._extract_employee_name
ExtractEmployeeName(ws, cs, text) ==
    LET n == Len(ws)
        Is == {i \in 1..(n - 2) : /\ ReMatch(JaneJohnPattern, ws[i], IgnoreCase).found
                                  /\ Len(ws[i + 1]) = 1
                                  /\ IsUpperStr(ws[i + 1])
                                  /\ IsUpperStr(ws[i + 2])}
        Joined(i) == ws[i] \o <<" ">> \o ws[i + 1] \o <<" ">> \o ws[i + 2]
        FirstOfThree(S) == IF S = {} THEN None ELSE Some(Joined(Least(S)))
        Cleaned(name, control_num) ==
            IF name.k = "val" THEN Some(WithoutControl(name.v, control_num)) ELSE None
    IN OrElse(Stripped(FoundGroup1(text, ReSearch(NamePattern, text, IgnoreCaseDotAll))),
              Cleaned(OrElse(FirstOfThree(Is),
                             Stripped(FoundGroup1(text, ReSearch(EmployeeBoxPattern, text,
                                                                 IgnoreCaseDotAll)))),
                      ControlNumberAfterLabel(ws)))

\* (\d{3}-\d{2}-\d{4})
SsnPattern == <<GroupOpen>> \o SsnShape \o <<GroupClose>>

\* (?:a\s+|Employee.*?SSN|Employee.*?social security).*?(\d{3}-\d{2}-\d{4})
SsnContextPattern ==
    <<Alt(<< <<In({"a"}), Sps>>,
             Lit(<<"E", "m", "p", "l", "o", "y", "e", "e">>) \o <<AnyLazy>> \o Lit(<<"S", "S", "N">>),
             Lit(<<"E", "m", "p", "l", "o", "y", "e", "e">>) \o <<AnyLazy>> \o Lit(<<"s", "o", "c", "i", "a", "l", " ", "s", "e", "c", "u", "r", "i", "t", "y">>) >>),
      AnyLazy>> \o SsnPattern

\* (?<!\d)(\d{9})(?!\d)
NineDigitPattern ==
    <<NotBehind(Digits), GroupOpen, D, D, D, D, D, D, D, D, D, GroupClose, NotAhead(Digits)>>

\* the nine-digit runs that are never taken for an SSN
SsnDenylist == {<<"0", "0", "0", "0", "0", "0", "0", "0", "0">>, <<"9", "9", "9", "9", "9", "9", "9", "9", "9">>}

\* W2Extractor._extract_ssn
ExtractSsn(ws, cs, text) ==
    LET Formatted(match) ==
            IF match.k = "val"
            THEN Some(SubSeq(match.v, 1, 3) \o <<"-">> \o SubSeq(match.v, 4, 5) \o <<"-">> \o
                      SubSeq(match.v, 6, 9))
            ELSE None
        Allowed(no_hyphen_matches) ==
            AtLeast(no_hyphen_matches,
                    {k \in 1..Len(no_hyphen_matches) : no_hyphen_matches[k] \notin SsnDenylist})
        Choose(ssn_matches) ==
            IF ssn_matches # <<>>
            THEN OrElse(FoundGroup1(text, ReSearch(SsnContextPattern, text, IgnoreCaseDotAll)),
                        Some(ssn_matches[1]))
            ELSE Formatted(Allowed(ReFindAll(NineDigitPattern, text, NoFlags)))
    IN Choose(ReFindAll(SsnPattern, text, NoFlags))

\* (?:b\s+)?(?:Employer(?:'s)?\s+(?:identification|ID)\s+number|EIN).*?(\d{2}-\d{7})
EinBoxPattern ==
    <<Opt(<<In({"b"}), Sps>>),
      Alt(<< Lit(<<"E", "m", "p", "l", "o", "y", "e", "r">>) \o <<Opt(Lit(<<"'", "s">>)), Sps, Alt(<<Lit(<<"i", "d", "e", "n", "t", "i", "f", "i", "c", "a", "t", "i", "o", "n">>), Lit(<<"I", "D">>)>>), Sps>> \o
             Lit(<<"n", "u", "m", "b", "e", "r">>),
             Lit(<<"E", "I", "N">>) >>),
      AnyLazy, GroupOpen>> \o EinShape \o <<GroupClose>>

\* (\d{2}-\d{7})
EinPattern == <<GroupOpen>> \o EinShape \o <<GroupClose>>

\* how far around a nine-digit run _extract_employer_ein looks for "SSN"
EinNearbyWindow == 30

\* W2Extractor._extract_employer_ein
ExtractEmployerEin(ws, cs, text) ==
    LET Around(at) == SubSeq(text, MaxOf(0, at - EinNearbyWindow) + 1,
                             MinOf(Len(text), at + EinNearbyWindow))
        NotSsn(nearby_text) ==
            ~(\/ Contains(nearby_text, <<"S", "S", "N">>)
              \/ Contains(StrLower(nearby_text), <<"s", "o", "c", "i", "a", "l", " ", "s", "e", "c", "u", "r", "i", "t", "y">>))
        Allowed(no_hyphen_matches) ==
            AtLeast(no_hyphen_matches,
                    {k \in 1..Len(no_hyphen_matches) :
                        NotSsn(Around(StrFind(text, no_hyphen_matches[k])))})
        Formatted(match) ==
            IF match.k = "val"
            THEN Some(SubSeq(match.v, 1, 2) \o <<"-">> \o SubSeq(match.v, 3, 9))
            ELSE None
    IN OrElse(FoundGroup1(text, ReSearch(EinBoxPattern, text, IgnoreCaseDotAll)),
              OrElse(FirstOf(ReFindAll(EinPattern, text, NoFlags)),
                     Formatted(Allowed(ReFindAll(NineDigitPattern, text, NoFlags)))))

\* the centre of a word box <<x0, y0, x1, y1>>, doubled (create_word_map)
CenterX2(c) == c[1] + c[3]
CenterY2(c) == c[2] + c[4]
Abs(a) == IF a < 0 THEN 0 - a ELSE a

\* (?:c\s+)?Employer's\s+name.*?([A-Z][A-Za-z\s&\.,]+)(?:d|e|address|$|\n)
EmployerBoxPattern ==
    <<Opt(<<In({"c"}), Sps>>)>> \o Lit(<<"E", "m", "p", "l", "o", "y", "e", "r", "'", "s">>) \o <<Sps>> \o Lit(<<"n", "a", "m", "e">>) \o
    <<AnyLazy, GroupOpen, In(Upper), Plus(<<In(Letters \cup Space \cup {"&", ".", ","})>>),
      GroupClose,
      Alt(<<Lit(<<"d">>), Lit(<<"e">>), Lit(<<"a", "d", "d", "r", "e", "s", "s">>), <<EndOfText>>, <<In({"\n"})>> >>)>>

CompanyIndicators == <<<<"I", "n", "c">>, <<"L", "L", "C">>, <<"C", "o", "r", "p">>, <<"C", "o", "m", "p", "a", "n", "y">>, <<"C", "o">>, <<"L", "t", "d">>>>

\* how many words _extract_employer_name looks back from a company indicator
CompanyLookBack == 5

RECURSIVE CompanyParts(_, _, _, _)
\* the backward loop of strategy 3: the capitalised words ending at word i;
\* words[j][0] of an empty word raises IndexError
CompanyParts(ws, i, j, acc) ==
    IF j < MaxOf(1, i - CompanyLookBack + 1) THEN Some(acc)
    ELSE IF ws[j] = <<>> THEN Raised
    ELSE IF ws[j][1] \in Upper THEN CompanyParts(ws, i, j - 1, <<ws[j]>> \o acc)
    ELSE Some(acc)

\* W2Extractor._extract_employer_name
ExtractEmployerName(ws, cs, text) ==
    LET n == Len(ws)
        \* strategy 1: "the" followed by two capitalised words
        The(i) == IF ~(StrLower(ws[i]) = <<"t", "h", "e">> /\ i + 2 <= n) THEN None
                  ELSE IF ws[i + 1] = <<>> THEN Raised
                  ELSE IF ws[i + 1][1] \notin Upper THEN None
                  ELSE IF ws[i + 2] = <<>> THEN Raised
                  ELSE IF ws[i + 2][1] \notin Upper THEN None
                  ELSE Some(StrStrip(ws[i] \o <<" ">> \o ws[i + 1] \o <<" ">> \o ws[i + 2]))
        TheAt == {i \in 1..n : The(i) # None}
        \* strategy 2: the label of box c
        BoxName(name) == IF name.k = "val" THEN Some(StrStrip(FirstLine(StrStrip(name.v))))
                         ELSE None
        \* strategy 3: a company indicator
        Named(company_parts, i) ==
            IF company_parts = Raised THEN Raised
            ELSE IF company_parts.v = <<>> THEN None
            ELSE Some(StrStrip(JoinWith(company_parts.v \o <<ws[i]>>, <<" ">>)))
        Ind(i) == IF ~(\E k \in 1..Len(CompanyIndicators) : Contains(ws[i], CompanyIndicators[k]))
                  THEN None
                  ELSE Named(CompanyParts(ws, i, i, <<>>), i)
        IndAt == {i \in 1..n : Ind(i) # None}
    IN IF TheAt # {} THEN The(Least(TheAt))
       ELSE OrElse(BoxName(FoundGroup1(text, ReSearch(EmployerBoxPattern, text, IgnoreCaseDotAll))),
                   IF IndAt # {} THEN Ind(Least(IndAt)) ELSE None)

\* (?:Box|box)?\s*{box_number}\b[^\d]*?(\$?\d{1,3}(?:,\d{3})*(?:\.\d{1,2})?)
BoxValuePattern(box_number) ==
    <<Opt(<<Alt(<<Lit(<<"B", "o", "x">>), Lit(<<"b", "o", "x">>)>>)>>), Star(<<Sp>>)>> \o Lit(box_number) \o
    <<WordB, LazyStar(<<NotIn(Digits)>>), GroupOpen>> \o CurrencyPattern \o <<GroupClose>>

\* label.*?(\$?\d{1,3}(?:,\d{3})*(?:\.\d{1,2})?)
LabelThenValue(label) == label \o <<AnyLazy, GroupOpen>> \o CurrencyPattern \o <<GroupClose>>

\* box_label_patterns of _extract_box_value
HasBoxLabelPattern(box_number) ==
    box_number \in {<<"1">>, <<"2">>, <<"3">>, <<"4">>, <<"5">>, <<"6">>, <<"1", "6">>, <<"1", "7">>}

BoxLabelPattern(box_number) ==
    CASE box_number = <<"1">> ->
           LabelThenValue(Lit(<<"W", "a", "g", "e", "s">>) \o <<Opt(<<In({","})>>), Sps>> \o Lit(<<"t", "i", "p", "s">>) \o
                          <<Opt(<<In({","})>>), Sps>> \o Lit(<<"o", "t", "h", "e", "r">>))
      [] box_number = <<"2">> ->
           LabelThenValue(Lit(<<"F", "e", "d", "e", "r", "a", "l">>) \o <<Sps, Opt(Lit(<<"i", "n", "c", "o", "m", "e">>)), Star(<<Sp>>)>> \o Lit(<<"t", "a", "x">>) \o
                          <<Sps>> \o Lit(<<"w", "i", "t", "h", "h", "e", "l", "d">>))
      [] box_number = <<"3">> ->
           LabelThenValue(Lit(<<"S", "o", "c", "i", "a", "l">>) \o <<Sps>> \o Lit(<<"s", "e", "c", "u", "r", "i", "t", "y">>) \o <<Sps>> \o Lit(<<"w", "a", "g", "e", "s">>))
      [] box_number = <<"4">> ->
           LabelThenValue(Lit(<<"S", "o", "c", "i", "a", "l">>) \o <<Sps>> \o Lit(<<"s", "e", "c", "u", "r", "i", "t", "y">>) \o <<Sps>> \o Lit(<<"t", "a", "x">>))
      [] box_number = <<"5">> -> LabelThenValue(Lit(<<"M", "e", "d", "i", "c", "a", "r", "e">>) \o <<Sps>> \o Lit(<<"w", "a", "g", "e", "s">>))
      [] box_number = <<"6">> -> LabelThenValue(Lit(<<"M", "e", "d", "i", "c", "a", "r", "e">>) \o <<Sps>> \o Lit(<<"t", "a", "x">>))
      [] box_number = <<"1", "6">> -> LabelThenValue(Lit(<<"S", "t", "a", "t", "e">>) \o <<Sps>> \o Lit(<<"w", "a", "g", "e", "s">>))
      [] box_number = <<"1", "7">> ->
           LabelThenValue(Lit(<<"S", "t", "a", "t", "e">>) \o <<Sps, Opt(Lit(<<"i", "n", "c", "o", "m", "e">>)), Star(<<Sp>>)>> \o Lit(<<"t", "a", "x">>))

\* how many of the nearest words to the right of a box number are examined
NearestWords == 7

\* value.replace('$', '').strip()
DropDollar(v) == StrStrip(StrRemove(v, <<"$">>))

\* value.replace('$', '').strip() of a result that is a str
Dropped(o) == IF o.k = "val" THEN Some(DropDollar(o.v)) ELSE None

\* Strategy 2 of _extract_box_value for one position of the box number: of
\* the words to the right, sorted by |dy| + 0.5 * dx (a stable sort), the
\* first of the nearest seven that starts like a currency amount
NearestValue(ws, cs, b) ==
    LET nearby == {w \in 1..Len(ws) : CenterX2(cs[w]) > CenterX2(cs[b])}
        Key(w) == 2 * Abs(CenterY2(cs[w]) - CenterY2(cs[b])) + (CenterX2(cs[w]) - CenterX2(cs[b]))
        Before(u, w) == Key(u) < Key(w) \/ (Key(u) = Key(w) /\ u < w)
        Rank(w) == Cardinality({u \in nearby : Before(u, w)})
        Nearest(Hits) ==
            IF Hits = {} THEN None
            ELSE Some(DropDollar(ws[CHOOSE w \in Hits : \A u \in Hits : u = w \/ Before(w, u)]))
    IN Nearest({w \in nearby : /\ Rank(w) < NearestWords
                               /\ ReMatch(CurrencyPattern, ws[w], NoFlags).found})

\* W2Extractor._extract_box_value
ExtractBoxValue(ws, cs, text, box_number) ==
    OrElse(Dropped(FoundGroup1(text, ReSearch(BoxValuePattern(box_number), text, NoFlags))),
           OrElse(FirstFound([b \in {b \in 1..Len(ws) : ws[b] = box_number} |->
                                 NearestValue(ws, cs, b)]),
                  IF HasBoxLabelPattern(box_number)
                  THEN Dropped(FoundGroup1(text, ReSearch(BoxLabelPattern(box_number), text,
                                                          IgnoreCaseDotAll)))
                  ELSE None))

\* (?:{context_word}).*?(?:box|Box)?\s*{box_number}\b[^\d]*?(\$?\d{1,3}(?:,\d{3})*(?:\.\d{1,2})?)
ContextBoxPattern(box_number, context_word) ==
    Lit(context_word) \o <<AnyLazy, Opt(<<Alt(<<Lit(<<"b", "o", "x">>), Lit(<<"B", "o", "x">>)>>)>>), Star(<<Sp>>)>> \o
    Lit(box_number) \o
    <<WordB, LazyStar(<<NotIn(Digits)>>), GroupOpen>> \o CurrencyPattern \o <<GroupClose>>

\* the distance limits of _extract_box_value_with_context: 0.3 from the
\* context word and 0.2 from the box number, in hundredths
ContextDistance == 30
BoxDistance == 20

\* W2Extractor._extract_box_value_with_context
ExtractBoxValueWithContext(ws, cs, text, box_number, context_word) ==
    LET context_positions == {w \in 1..Len(ws) :
                                 Contains(StrLower(ws[w]), StrLower(context_word))}
        box_positions == {w \in 1..Len(ws) : ws[w] = box_number}
        \* twice the Manhattan distance of the centres
        Dist2(u, w) == Abs(CenterX2(cs[u]) - CenterX2(cs[w])) +
                       Abs(CenterY2(cs[u]) - CenterY2(cs[w]))
    IN OrElse(Dropped(FoundGroup1(text, ReSearch(ContextBoxPattern(box_number, context_word),
                                                 text, IgnoreCaseDotAll))),
              Dropped(AtLeast(ws, {w \in 1..Len(ws) :
                                      /\ ReMatch(CurrencyPattern, ws[w], NoFlags).found
                                      /\ \E p \in context_positions : Dist2(w, p) < 2 * ContextDistance
                                      /\ \E p \in box_positions : Dist2(w, p) < 2 * BoxDistance})))

\* (20\d{2})
YearPattern == <<GroupOpen>> \o YearShape \o <<GroupClose>>

\* year_context_patterns of _extract_tax_year
YearContextPatterns ==
    << <<Alt(<<Lit(<<"T", "a", "x">>), Lit(<<"t", "a", "x">>)>>), Sps, Alt(<<Lit(<<"Y", "e", "a", "r">>), Lit(<<"y", "e", "a", "r">>)>>),
         LazyStar(<<NotIn(Digits)>>)>> \o YearPattern,
       <<Alt(<<Lit(<<"F", "o", "r">>), Lit(<<"f", "o", "r">>)>>), Sps, Alt(<<Lit(<<"T", "a", "x">>), Lit(<<"t", "a", "x">>)>>), Sps,
         Alt(<<Lit(<<"Y", "e", "a", "r">>), Lit(<<"y", "e", "a", "r">>)>>), LazyStar(<<NotIn(Digits)>>)>> \o YearPattern,
       <<Alt(<<Lit(<<"W", "-", "2">>), Lit(<<"W", "2">>)>>), AnyLazy>> \o YearPattern,
       Lit(<<"D", "e", "p", "a", "r", "t", "m", "e", "n", "t", " ", "o", "f", " ", "t", "h", "e", " ", "T", "r", "e", "a", "s", "u", "r", "y">>) \o <<AnyLazy>> \o YearPattern >>

\* the bottom of the form: below 0.7, in hundredths
BottomOfForm == 70

\* the year with the top count that comes last in the text
MostCommonYearLast(year_matches) ==
    LET Count(k) == Cardinality({j \in 1..Len(year_matches) :
                                    year_matches[j] = year_matches[k]})
        Top == {k \in 1..Len(year_matches) :
                   \A j \in 1..Len(year_matches) : Count(j) <= Count(k)}
    IN IF Top = {} THEN None ELSE Some(year_matches[Most(Top)])

\* Strategy 3 of _extract_tax_year: the one year, or max() over the counts,
\* a dict in insertion order: the first year with the top count
MostCommonYear(year_matches) ==
    LET Count(k) == Cardinality({j \in 1..Len(year_matches) :
                                    year_matches[j] = year_matches[k]})
    IN AtLeast(year_matches, {k \in 1..Len(year_matches) :
                                 \A j \in 1..Len(year_matches) : Count(j) <= Count(k)})

\* W2Extractor._extract_tax_year
ExtractTaxYear(ws, cs, text) ==
    LET MostCommon(year_matches) == MostCommonYear(year_matches)
    IN OrElse(FirstFound([p \in 1..Len(YearContextPatterns) |->
                             FoundGroup1(text, ReSearch(YearContextPatterns[p], text, NoFlags))]),
              OrElse(AtLeast(ws, {w \in 1..Len(ws) : /\ ReMatch(YearShape, ws[w], NoFlags).found
                                                     /\ CenterY2(cs[w]) > 2 * BottomOfForm}),
                     MostCommon(ReFindAll(YearPattern, text, NoFlags))))

\* ------------------------------------------------------------------------
\* The W-2 template: tables and template-region matching (w2_template.py)
\* ------------------------------------------------------------------------

RECURSIVE StrSplit(_)
\* s.split(): the maximal runs of non-space characters
StrSplit(s) ==
    LET t == StrLStrip(s)
    IN IF t = <<>> THEN <<>>
       ELSE LET Ends == {i \in 1..Len(t) : t[i] \in Space}
                stop == IF Ends = {} THEN Len(t) + 1 ELSE Least(Ends)
            IN <<SubSeq(t, 1, stop - 1)>> \o StrSplit(SubSeq(t, stop, Len(t)))

\* the format patterns of W2_FIELD_DEFINITIONS
\* ^\d{3}-\d{2}-\d{4}$
SsnFormat == <<StartOfText>> \o SsnShape \o <<EndOfText>>
\* ^[A-Za-z\s\.-]+$
NameFormat == <<StartOfText, Plus(<<In(Letters \cup Space \cup {".", "-"})>>), EndOfText>>
\* ^\d{2}-\d{7}$
EinFormat == <<StartOfText>> \o EinShape \o <<EndOfText>>
\* ^.+$
NonEmptyFormat == <<StartOfText, Plus(<<Dot>>), EndOfText>>
\* ^[A-Za-z0-9]+$
AlnumFormat == <<StartOfText, Plus(<<In(Alnum)>>), EndOfText>>
\* ^\$?[\d,]+\.\d{2}$
CurrencyFormat ==
    <<StartOfText, Opt(<<In({"$"})>>), Plus(<<In(Digits \cup {","})>>), In({"."}), D, D,
      EndOfText>>
\* ^20\d{2}$
YearFormat == <<StartOfText>> \o YearShape \o <<EndOfText>>

\* W2_FIELD_DEFINITIONS, in the order of the dict
W2_FIELD_DEFINITIONS ==
    << [name |-> "employee_ssn", box_id |-> "a", label |-> <<"E", "m", "p", "l", "o", "y", "e", "e", "'", "s", " ", "s", "o", "c", "i", "a", "l", " ", "s", "e", "c", "u", "r", "i", "t", "y", " ", "n", "u", "m", "b", "e", "r">>,
        format_pattern |-> SsnFormat, data_type |-> "string", required |-> TRUE],
       [name |-> "employee_name", box_id |-> "e", label |-> <<"E", "m", "p", "l", "o", "y", "e", "e", "'", "s", " ", "f", "i", "r", "s", "t", " ", "n", "a", "m", "e", " ", "a", "n", "d", " ", "i", "n", "i", "t", "i", "a", "l">>,
        format_pattern |-> NameFormat, data_type |-> "string", required |-> TRUE],
       [name |-> "employer_ein", box_id |-> "b", label |-> <<"E", "m", "p", "l", "o", "y", "e", "r", " ", "i", "d", "e", "n", "t", "i", "f", "i", "c", "a", "t", "i", "o", "n", " ", "n", "u", "m", "b", "e", "r", " ", "(", "E", "I", "N", ")">>,
        format_pattern |-> EinFormat, data_type |-> "string", required |-> TRUE],
       [name |-> "employer_name", box_id |-> "c", label |-> <<"E", "m", "p", "l", "o", "y", "e", "r", "'", "s", " ", "n", "a", "m", "e", ",", " ", "a", "d", "d", "r", "e", "s", "s", ",", " ", "a", "n", "d", " ", "Z", "I", "P", " ", "c", "o", "d", "e">>,
        format_pattern |-> NonEmptyFormat, data_type |-> "string", required |-> TRUE],
       [name |-> "control_number", box_id |-> "d", label |-> <<"C", "o", "n", "t", "r", "o", "l", " ", "n", "u", "m", "b", "e", "r">>,
        format_pattern |-> AlnumFormat, data_type |-> "string", required |-> FALSE],
       [name |-> "wages", box_id |-> "1", label |-> <<"W", "a", "g", "e", "s", ",", " ", "t", "i", "p", "s", ",", " ", "o", "t", "h", "e", "r", " ", "c", "o", "m", "p", "e", "n", "s", "a", "t", "i", "o", "n">>,
        format_pattern |-> CurrencyFormat, data_type |-> "currency", required |-> TRUE],
       [name |-> "federal_tax", box_id |-> "2", label |-> <<"F", "e", "d", "e", "r", "a", "l", " ", "i", "n", "c", "o", "m", "e", " ", "t", "a", "x", " ", "w", "i", "t", "h", "h", "e", "l", "d">>,
        format_pattern |-> CurrencyFormat, data_type |-> "currency", required |-> TRUE],
       [name |-> "social_security_wages", box_id |-> "3", label |-> <<"S", "o", "c", "i", "a", "l", " ", "s", "e", "c", "u", "r", "i", "t", "y", " ", "w", "a", "g", "e", "s">>,
        format_pattern |-> CurrencyFormat, data_type |-> "currency", required |-> TRUE],
       [name |-> "social_security_tax", box_id |-> "4", label |-> <<"S", "o", "c", "i", "a", "l", " ", "s", "e", "c", "u", "r", "i", "t", "y", " ", "t", "a", "x", " ", "w", "i", "t", "h", "h", "e", "l", "d">>,
        format_pattern |-> CurrencyFormat, data_type |-> "currency", required |-> TRUE],
       [name |-> "medicare_wages", box_id |-> "5", label |-> <<"M", "e", "d", "i", "c", "a", "r", "e", " ", "w", "a", "g", "e", "s", " ", "a", "n", "d", " ", "t", "i", "p", "s">>,
        format_pattern |-> CurrencyFormat, data_type |-> "currency", required |-> TRUE],
       [name |-> "medicare_tax", box_id |-> "6", label |-> <<"M", "e", "d", "i", "c", "a", "r", "e", " ", "t", "a", "x", " ", "w", "i", "t", "h", "h", "e", "l", "d">>,
        format_pattern |-> CurrencyFormat, data_type |-> "currency", required |-> TRUE],
       [name |-> "tax_year", box_id |-> "year", label |-> <<"T", "a", "x", " ", "Y", "e", "a", "r">>,
        format_pattern |-> YearFormat, data_type |-> "integer", required |-> TRUE] >>

DefinedFields == {W2_FIELD_DEFINITIONS[k].name : k \in 1..Len(W2_FIELD_DEFINITIONS)}
FieldDef(field_name) ==
    W2_FIELD_DEFINITIONS[CHOOSE k \in 1..Len(W2_FIELD_DEFINITIONS) :
                             W2_FIELD_DEFINITIONS[k].name = field_name]

\* W2_FORM_REGIONS["standard_layout"]["box_regions"]: x_range and y_range of
\* every box, in hundredths
BoxIds == {"a", "b", "c", "d", "e", "1", "2", "3", "4", "5", "6"}
BoxRegion(box_id) ==
    CASE box_id = "a" -> [x_range |-> <<25, 48>>, y_range |-> <<8, 12>>]
      [] box_id = "b" -> [x_range |-> <<25, 48>>, y_range |-> <<16, 20>>]
      [] box_id = "c" -> [x_range |-> <<18, 48>>, y_range |-> <<20, 28>>]
      [] box_id = "d" -> [x_range |-> <<18, 28>>, y_range |-> <<29, 33>>]
      [] box_id = "e" -> [x_range |-> <<18, 48>>, y_range |-> <<33, 39>>]
      [] box_id = "1" -> [x_range |-> <<52, 65>>, y_range |-> <<16, 19>>]
      [] box_id = "2" -> [x_range |-> <<65, 80>>, y_range |-> <<16, 19>>]
      [] box_id = "3" -> [x_range |-> <<52, 65>>, y_range |-> <<19, 22>>]
      [] box_id = "4" -> [x_range |-> <<65, 80>>, y_range |-> <<19, 22>>]
      [] box_id = "5" -> [x_range |-> <<52, 65>>, y_range |-> <<22, 26>>]
      [] box_id = "6" -> [x_range |-> <<65, 80>>, y_range |-> <<22, 26>>]

\* _prepare_text_blocks: the bounds of the document.  The minima start at
\* infinity and the maxima at 0; they are used only when there is a word.
MinX(cs) == Least({cs[i][1] : i \in 1..Len(cs)})
MinY(cs) == Least({cs[i][2] : i \in 1..Len(cs)})
MaxX(cs) == Most({0} \cup {cs[i][3] : i \in 1..Len(cs)})
MaxY(cs) == Most({0} \cup {cs[i][4] : i \in 1..Len(cs)})
DocWidth(cs) == MaxX(cs) - MinX(cs)
DocHeight(cs) == MaxY(cs) - MinY(cs)

\* _prepare_text_blocks divides by doc_width and doc_height for every word:
\* with a word and a zero extent it raises ZeroDivisionError
PrepareRaises(ws, cs) == ws # <<>> /\ (DocWidth(cs) = 0 \/ DocHeight(cs) = 0)

\* The relative centre of block i is XNum / XDen, YNum / YDen
XNum(cs, i) == CenterX2(cs[i]) - 2 * MinX(cs)
XDen(cs) == 2 * DocWidth(cs)
YNum(cs, i) == CenterY2(cs[i]) - 2 * MinY(cs)
YDen(cs) == 2 * DocHeight(cs)

\* lo/100 <= num/den <= hi/100, for den # 0
RatioWithin(num, den, lo, hi) ==
    IF den > 0 THEN lo * den <= 100 * num /\ 100 * num <= hi * den
    ELSE lo * den >= 100 * num /\ 100 * num >= hi * den

\* num/den > p/100, for den # 0
RatioAbove(num, den, p) ==
    IF den > 0 THEN 100 * num > p * den ELSE 100 * num < p * den

\* block["x"] of block u is less than that of block w
XLess(cs, u, w) ==
    IF XDen(cs) > 0 THEN XNum(cs, u) < XNum(cs, w) ELSE XNum(cs, u) > XNum(cs, w)
YLess(cs, u, w) ==
    IF YDen(cs) > 0 THEN YNum(cs, u) < YNum(cs, w) ELSE YNum(cs, u) > YNum(cs, w)

\* the blocks inside the region of a box, in OCR order (a set of indices)
CandidateBlocks(ws, cs, box_id) ==
    LET region == BoxRegion(box_id)
    IN {i \in 1..Len(ws) :
           /\ RatioWithin(XNum(cs, i), XDen(cs), region.x_range[1], region.x_range[2])
           /\ RatioWithin(YNum(cs, i), YDen(cs), region.y_range[1], region.y_range[2])}

RECURSIVE SortedByX(_, _)
\* sorted(blocks, key=x): a stable sort of the set S of block indices
SortedByX(cs, S) ==
    IF S = {} THEN <<>>
    ELSE LET first == CHOOSE u \in S :
                         \A w \in S : u = w \/ XLess(cs, u, w) \/ (~XLess(cs, w, u) /\ u < w)
         IN <<first>> \o SortedByX(cs, S \ {first})

RECURSIVE SortedByY(_, _)
SortedByY(cs, S) ==
    IF S = {} THEN <<>>
    ELSE LET first == CHOOSE u \in S :
                         \A w \in S : u = w \/ YLess(cs, u, w) \/ (~YLess(cs, w, u) /\ u < w)
         IN <<first>> \o SortedByY(cs, S \ {first})

\* (?:Jane|John)\s+[A-Z]\s+(?:Doe|Smith)
FullNamePattern ==
    <<Alt(<<Lit(<<"J", "a", "n", "e">>), Lit(<<"J", "o", "h", "n">>)>>), Sps, In(Upper), Sps, Alt(<<Lit(<<"D", "o", "e">>), Lit(<<"S", "m", "i", "t", "h">>)>>)>>

NameLabelWords == {<<"e", "m", "p", "l", "o", "y", "e", "e">>, <<"e", "m", "p", "l", "o", "y", "e", "r">>, <<"f", "i", "r", "s", "t">>, <<"l", "a", "s", "t">>, <<"i", "n", "i", "t", "i", "a", "l">>, <<"n", "a", "m", "e">>}
AddressKeywords == {<<"a", "d", "d", "r", "e", "s", "s">>, <<"z", "i", "p">>, <<"c", "o", "d", "e">>}

\* "General string pattern matching": the first candidate block that
\* matches the format pattern of the field
GeneralMatch(ws, cand, format_pattern) ==
    AtLeast(ws, {i \in cand : ReMatch(format_pattern, ws[i], NoFlags).found})

\* the bottom 30% of the document: y > 0.7, in hundredths
BottomBlocks == 70

\* a box that is taken to have a region whatever the layout holds
RegionAssumed(box_id, regions) == TRUE

\* line 256: box_id in W2_FORM_REGIONS[form_layout]["box_regions"]
RegionDefined(box_id, regions) == box_id \in regions

\* extract_w2_field(field_name, text_blocks): the value it returns, with
\* regions the box ids that have a region in the layout
ExtractW2Field(field_name, ws, cs, regions) ==
    IF field_name \notin DefinedFields THEN None
    ELSE LET field_def == FieldDef(field_name)
             box_id == field_def.box_id
             cand == CandidateBlocks(ws, cs, box_id)
             Joined(S, sorted) ==
                 IF S = {} THEN None
                 ELSE Some(JoinWith([k \in 1..Len(sorted) |-> ws[sorted[k]]], <<" ">>))
             \* the value of a currency field
             label_words == StrSplit(StrLower(field_def.label))
             IsLabel(i) == \E k \in 1..Len(label_words) :
                              Contains(StrLower(ws[i]), label_words[k])
             \* the value of an identifier field
             shape == IF field_name = "employee_ssn" THEN SsnShape ELSE EinShape
             IdAt(i) == OrElse(FoundGroup0(ws[i], ReSearch(TemplateIdPattern, ws[i], NoFlags)),
                               Some(ws[i]))
             FirstId(Hits) == IF Hits = {} THEN None ELSE IdAt(Least(Hits))
             Special ==
                 CASE field_name = "employee_name" ->
                        LET Parts == {i \in cand :
                                         /\ Len(ws[i]) > 1
                                         /\ ws[i][1] \in Upper
                                         /\ ~\E l \in NameLabelWords : Contains(StrLower(ws[i]), l)}
                        IN OrElse(AtLeast(ws, {i \in cand :
                                                  ReMatch(FullNamePattern, ws[i], IgnoreCase).found}),
                                  Joined(Parts, SortedByX(cs, Parts)))
                   [] field_name = "employer_name" ->
                        LET Kept == {i \in cand :
                                        ~\E k \in AddressKeywords : Contains(StrLower(ws[i]), k)}
                        IN Joined(Kept, SortedByY(cs, Kept))
                   [] field_name \in {"employee_ssn", "employer_ein"} ->
                        FirstId({i \in cand : ReSearch(shape, ws[i], NoFlags).found})
                   [] OTHER -> None
         IN IF box_id = "year"
            THEN AtLeast(ws, {i \in 1..Len(ws) :
                                 /\ RatioAbove(YNum(cs, i), YDen(cs), BottomBlocks)
                                 /\ ReMatch(YearShape, ws[i], NoFlags).found})
            ELSE IF ~RegionDefined(box_id, regions) THEN None
            ELSE IF field_def.data_type = "currency"
            THEN FirstFound([i \in {i \in cand : ~IsLabel(i)} |->
                                FoundGroup0(ws[i], ReSearch(TemplateCurrencyPattern, ws[i], NoFlags))])
            ELSE IF field_def.data_type = "string"
            THEN OrElse(Special, GeneralMatch(ws, cand, field_def.format_pattern))
            ELSE GeneralMatch(ws, cand, field_def.format_pattern)

\* The cleanup of process_w2_form: "$" and "," are removed from currency values
CleanCurrency(value) == StrRemove(StrRemove(value, <<"$">>), <<",">>)

\* process_w2_form(text_blocks): the fields of its result (the fields whose
\* template value is truthy)
TemplateValue(field_name, ws, cs, regions) ==
    LET Cleaned(value) ==
            IF ~Truthy(value) THEN None
            ELSE IF FieldDef(field_name).data_type = "currency" THEN Some(CleanCurrency(value.v))
            ELSE value
    IN Cleaned(ExtractW2Field(field_name, ws, cs, regions))

\* process_w2_form(text_blocks, image_path): the dict it returns.  With an
\* image path and a matched field it holds what create_visualization
\* returned (a path or None) under "_visualization_path".
ProcessW2Form(ws, cs, image_path, created, regions) ==
    LET Built(all) ==
            LET found == {f \in DefinedFields : Truthy(all[f])}
            IN IF image_path /\ found # {}
               THEN [f \in found \cup {"_visualization_path"} |->
                        IF f \in found THEN all[f] ELSE created]
               ELSE [f \in found |-> all[f]]
    IN Built([f \in DefinedFields |-> TemplateValue(f, ws, cs, regions)])

\* field_def["validation"] of W2_FIELD_DEFINITIONS
ValidationMessage(field_name) ==
    CASE field_name = "employee_ssn" -> "SSN must be in XXX-XX-XXXX format"
      [] field_name = "employee_name" -> "Must contain letters, spaces, periods, or hyphens"
      [] field_name = "employer_ein" -> "EIN must be in XX-XXXXXXX format"
      [] field_name = "employer_name" -> "Must not be empty"
      [] field_name = "control_number" -> "Alphanumeric characters only"
      [] field_name = "tax_year" -> "Must be a 4-digit year (20XX)"
      [] OTHER -> "Must be a currency amount"

\* the message of validate_w2_extraction for a required field that is absent
MissingMessage == "Required field is missing"

\* the keys that start with "_"
InternalFields == {"_visualization_path", "_debug_visualization"}

\* what float() accepts of a str without "$" and ",": an optional sign,
\* digits with an optional point, or a point and digits
FloatLiteral ==
    <<StartOfText, Opt(<<In({"+", "-"})>>),
      Alt(<<<<Plus(<<D>>), Opt(<<In({"."})>>), Star(<<D>>)>>, <<In({"."}), Plus(<<D>>)>>>>),
      EndOfText>>

\* lines 480-486: float(value.replace("$", "").replace(",", "")) >= 0, and
\* False when float raises ValueError (a value that matched the currency
\* format has no sign: the only negative amounts start with "-")
WagesAmountValid(value) ==
    LET NonNegative(stripped) ==
            /\ ReMatch(FloatLiteral, stripped, NoFlags).found
            /\ Head(stripped) # "-"
    IN NonNegative(StrRemove(StrRemove(value, <<"$">>), <<",">>))

\* lines 465-492: the annotation of a field that is present
Annotation(field_name, value) ==
    LET Annotated(is_valid) ==
            [is_valid |-> is_valid, value |-> value,
             message |-> IF is_valid THEN "Valid" ELSE ValidationMessage(field_name)]
        Checked(matches) ==
            Annotated(IF field_name = "wages" /\ matches THEN WagesAmountValid(value.v)
                      ELSE matches)
    IN Checked(ReMatch(FieldDef(field_name).format_pattern, value.v, NoFlags).found)

\* a required field that is absent passes as valid
MissingAnnotationValid == [is_valid |-> TRUE, value |-> None, message |-> "Valid"]

\* lines 494-501: the annotation of a required field that is absent
MissingAnnotation == [is_valid |-> FALSE, value |-> None, message |-> MissingMessage]

\* the validation that takes the fields it finds malformed out of the data
ValidateDiscarding(extracted_data) ==
    LET annotated == {f \in DOMAIN extracted_data \cap DefinedFields : f \notin InternalFields}
        kept == {f \in DOMAIN extracted_data :
                    f \in annotated => Annotation(f, extracted_data[f]).is_valid}
    IN [k |-> "validation",
        extracted_data |-> [f \in kept |-> extracted_data[f]],
        validation_results |-> [f \in annotated |-> Annotation(f, extracted_data[f])]]

\* validate_w2_extraction(extracted_data): the dict it returns, and
\* extracted_data as the call leaves it (no statement assigns to it).
\* re.match raises TypeError for a value that is None.
ValidateW2Extraction(extracted_data) ==
    LET annotated == {f \in DOMAIN extracted_data \cap DefinedFields : f \notin InternalFields}
        missing == {f \in DefinedFields \ DOMAIN extracted_data : FieldDef(f).required}
    IN IF \E f \in annotated : extracted_data[f].k # "val"
       THEN [k |-> "exception", error |-> "TypeError", extracted_data |-> extracted_data]
       ELSE [k |-> "validation",
             extracted_data |-> extracted_data,
             validation_results |->
                 [f \in annotated \cup missing |->
                     IF f \in annotated THEN Annotation(f, extracted_data[f])
                     ELSE MissingAnnotation]]

\* ------------------------------------------------------------------------
\* The generic extractor and the registry (document_extractors/__init__.py)
\* ------------------------------------------------------------------------

\* W2Extractor.get_field_schema
W2Schema ==
    {"employee_name", "employee_ssn", "employer_name", "employer_ein", "wages",
     "federal_tax", "social_security_wages", "social_security_tax", "medicare_wages",
     "medicare_tax", "state_wages", "state_tax", "tax_year", "control_number"}

\* GenericDocumentExtractor.get_field_schema
GenericSchema == {"name", "address", "date", "amount", "account_number", "reference"}

W2Label == <<"W", "2", " ", "(", "F", "o", "r", "m", " ", "W", "-", "2", ")">>

\* the registry that has no extractor for a label it does not know
GetExtractorUnregistered(doc_type) == IF doc_type = W2Label THEN "W2Extractor" ELSE "None"
\* DocumentExtractorFactory.get_extractor: the class of the extractor
GetExtractor(doc_type) == IF doc_type = W2Label THEN "W2Extractor" ELSE "GenericDocumentExtractor"

\* extractor.get_field_schema()
GetFieldSchema(extractor) == IF extractor = "W2Extractor" THEN W2Schema ELSE GenericSchema

\* c.isupper() for the first character of a word
IsUpperChar(c) == c \in Upper

\* Jan|Feb|...|Dec
MonthNames ==
    << Lit(<<"J", "a", "n">>), Lit(<<"F", "e", "b">>), Lit(<<"M", "a", "r">>), Lit(<<"A", "p", "r">>), Lit(<<"M", "a", "y">>), Lit(<<"J", "u", "n">>), Lit(<<"J", "u", "l">>), Lit(<<"A", "u", "g">>), Lit(<<"S", "e", "p">>),
       Lit(<<"O", "c", "t">>), Lit(<<"N", "o", "v">>), Lit(<<"D", "e", "c">>) >>

\* (\d{1,2}/\d{1,2}/\d{2,4}|\d{1,2}-\d{1,2}-\d{2,4}|(?:Jan|...|Dec)[a-z]* \d{1,2},? \d{4})
DatePattern ==
    <<GroupOpen,
      Alt(<< <<Rep(<<D>>, 1, 2, TRUE), In({"/"}), Rep(<<D>>, 1, 2, TRUE), In({"/"}),
               Rep(<<D>>, 2, 4, TRUE)>>,
             <<Rep(<<D>>, 1, 2, TRUE), In({"-"}), Rep(<<D>>, 1, 2, TRUE), In({"-"}),
               Rep(<<D>>, 2, 4, TRUE)>>,
             <<Alt(MonthNames), Star(<<In(Lower)>>), In({" "}), Rep(<<D>>, 1, 2, TRUE),
               Opt(<<In({","})>>), In({" "}), D, D, D, D>> >>),
      GroupClose>>

\* \$(\d{1,3}(?:,\d{3})*(?:\.\d{2})?)
AmountPattern ==
    <<In({"$"}), GroupOpen, Rep(<<D>>, 1, 3, TRUE), Star(<<In({","}), D, D, D>>),
      Opt(<<In({"."}), D, D>>), GroupClose>>

\* (?:Account|Acct|A/C)(?:\.|\s|#|:)?\s*(\d+)
AccountPattern ==
    <<Alt(<< Lit(<<"A", "c", "c", "o", "u", "n", "t">>), Lit(<<"A", "c", "c", "t">>), Lit(<<"A", "/", "C">>) >>),
      Opt(<<In({".", "#", ":"} \cup Space)>>), Star(<<Sp>>), GroupOpen, Plus(<<D>>),
      GroupClose>>

\* The name loop of GenericDocumentExtractor.extract_fields.  word[0] of an
\* empty word raises IndexError; the loop stops at the first pair of
\* capitalised words.
NamePairs(ws) ==
    {i \in 1..Len(ws) :
        /\ ws[i] # <<>> /\ IsUpperChar(ws[i][1]) /\ Len(ws[i]) > 1
        /\ i + 1 <= Len(ws) /\ ws[i + 1] # <<>> /\ IsUpperChar(ws[i + 1][1])
        /\ Len(ws[i + 1]) > 1}
\* the words whose first character is read and that are empty
NameRaisesAt(ws) ==
    {i \in 1..Len(ws) :
        \/ ws[i] = <<>>
        \/ /\ IsUpperChar(ws[i][1]) /\ Len(ws[i]) > 1 /\ i + 1 <= Len(ws)
           /\ ws[i + 1] = <<>>}
GenericName(ws) ==
    LET stop == IF NamePairs(ws) = {} THEN Len(ws) + 1 ELSE Least(NamePairs(ws))
    IN IF \E i \in NameRaisesAt(ws) : i < stop THEN Raised
       ELSE IF stop <= Len(ws) THEN Some(ws[stop] \o <<" ">> \o ws[stop + 1])
       ELSE None

\* GenericDocumentExtractor.extract_fields: the dict it returns, or Raised
GenericExtractFields(ws, cs, text) ==
    LET Fields(name, date, amount, account) ==
            LET found == [f \in {"name", "date", "amount", "account_number"} |->
                             CASE f = "name" -> name
                               [] f = "date" -> date
                               [] f = "amount" -> amount
                               [] f = "account_number" -> account]
            IN IF name.k = "raise" THEN Raised
               ELSE Some([f \in {f \in DOMAIN found : found[f].k = "val"} |-> found[f]])
    IN Fields(GenericName(ws),
              FirstOf(ReFindAll(DatePattern, text, NoFlags)),
              FirstOf(ReFindAll(AmountPattern, text, NoFlags)),
              FoundGroup1(text, ReSearch(AccountPattern, text, IgnoreCase)))

\* ------------------------------------------------------------------------
\* The classifier (core/classification/classifier.py)
\* ------------------------------------------------------------------------

\* The keys of TYPE_DESCRIPTIONS, in the order of the dict
TypeLabels ==
    << <<"K", "1", " ", "(", "S", "c", "h", "e", "d", "u", "l", "e", " ", "K", "-", "1", ")">>, <<"K", "2", " ", "(", "S", "c", "h", "e", "d", "u", "l", "e", " ", "K", "-", "2", ")">>, <<"W", "1", " ", "(", "F", "o", "r", "m", " ", "W", "-", "1", ")">>, W2Label,
       <<"T", "a", "x", " ", "R", "e", "t", "u", "r", "n">>, <<"S", "h", "a", "r", "e", "h", "o", "l", "d", "e", "r", " ", "M", "e", "e", "t", "i", "n", "g", " ", "N", "o", "t", "i", "c", "e">>, <<"P", "r", "o", "x", "y", " ", "S", "t", "a", "t", "e", "m", "e", "n", "t">>,
       <<"F", "i", "n", "a", "n", "c", "i", "a", "l", " ", "S", "t", "a", "t", "e", "m", "e", "n", "t">>, <<"S", "E", "C", " ", "F", "i", "l", "i", "n", "g">>, <<"L", "o", "a", "n", " ", "A", "g", "r", "e", "e", "m", "e", "n", "t">>,
       <<"I", "n", "v", "e", "s", "t", "m", "e", "n", "t", " ", "A", "g", "r", "e", "e", "m", "e", "n", "t">> >>

\* w2_keywords of classify
w2_keywords ==
    << <<"w", "-", "2">>, <<"w", "a", "g", "e", " ", "a", "n", "d", " ", "t", "a", "x", " ", "s", "t", "a", "t", "e", "m", "e", "n", "t">>, <<"f", "o", "r", "m", " ", "w", "-", "2">>,
       <<"e", "m", "p", "l", "o", "y", "e", "e", "'", "s", " ", "s", "o", "c", "i", "a", "l", " ", "s", "e", "c", "u", "r", "i", "t", "y", " ", "n", "u", "m", "b", "e", "r">>, <<"e", "m", "p", "l", "o", "y", "e", "r", " ", "i", "d", "e", "n", "t", "i", "f", "i", "c", "a", "t", "i", "o", "n", " ", "n", "u", "m", "b", "e", "r">> >>

\* the override without text.lower()
KeywordOverrideCaseSensitive(text) ==
    /\ \E k \in 1..Len(w2_keywords) : Contains(text, w2_keywords[k])
    /\ Contains(text, <<"c", "o", "p", "y", " ", "b">>)

\* the condition of the keyword override of classify
KeywordOverride(text) ==
    LET text_lower == StrLower(text)
    IN /\ \E k \in 1..Len(w2_keywords) : Contains(text_lower, w2_keywords[k])
       /\ Contains(text_lower, <<"c", "o", "p", "y", " ", "b">>)

\* the confidence of the keyword override, in hundredths
OverrideConfidence == 95

\* text[:512]
SampleLimit == 512

\* a sample that is the whole text
TextSampleWhole(text) == text

\* text_sample of classify
TextSample(text) == SubSeq(text, 1, MinOf(Len(text), SampleLimit))

\* An embedding is a direction in the plane, a multiple of 60 degrees; the
\* cosine of the angle between two directions, in hundredths
Cosines == <<100, 50, -50, -100, -50, 50>>
Angles == 0..(Len(Cosines) - 1)
CosSim(a, b) == Cosines[((a - b) % Len(Cosines)) + 1]

\* similarities of classify
Similarities(text_embedding, embeddings) ==
    [t \in DOMAIN embeddings |-> CosSim(text_embedding, embeddings[t])]

\* the last key, in the order of the dict, with the greatest similarity
BestMatchLast(similarities) ==
    TypeLabels[Most({k \in 1..Len(TypeLabels) :
                       \A j \in 1..Len(TypeLabels) :
                           similarities[TypeLabels[j]] <= similarities[TypeLabels[k]]})]

\* max(similarities, key=similarities.get): the first key, in the order of
\* the dict, with the greatest similarity
BestMatch(similarities) ==
    TypeLabels[Least({k \in 1..Len(TypeLabels) :
                        \A j \in 1..Len(TypeLabels) :
                            similarities[TypeLabels[j]] <= similarities[TypeLabels[k]]})]

\* _get_extractor_for_doc_type of ProcessorService: "W2" in doc_type selects
\* the W-2 extractor, every other type the registry class itself
ServiceExtractor(doc_type) ==
    IF doc_type # <<>> /\ Contains(doc_type, <<"W", "2">>) THEN "W2Extractor"
    ELSE "DocumentExtractorFactory"

\* ------------------------------------------------------------------------
\* Documents: the words an OCR pass reads, with their boxes
\* ------------------------------------------------------------------------

\* a word and its box ((x0, y0), (x1, y1))
W(word, x0, y0, x1, y1) == [word |-> word, box |-> <<x0, y0, x1, y1>>]

\* The pieces a document is made of.  Box a is around (35, 10), box d around
\* (23, 31), box e around (30, 36), box 1 around (58, 17), box 2 around
\* (72, 17), box b around (35, 18), box c around (30, 23).
Segments ==
    << << W(<<"1", "2", "-", "1", "2", "3", "-", "4", "5", "-", "6", "7", "8", "9">>, 30, 9, 40, 11) >>,
       << W(<<"1", "2", "3", "-", "4", "5", "-", "6", "7", "8", "9">>, 30, 9, 40, 11) >>,
       << W(<<"9", "8", "7", "-", "6", "5", "-", "4", "3", "2", "1">>, 84, 50, 92, 52) >>,
       << W(<<"C", "o", "n", "t", "r", "o", "l">>, 2, 30, 8, 32), W(<<"n", "u", "m", "b", "e", "r">>, 9, 30, 16, 32),
          W(<<"A", "B", "1", "2", "3">>, 20, 30, 26, 32) >>,
       << W(<<"J", "a", "n", "e">>, 20, 35, 24, 37), W(<<"A">>, 25, 35, 27, 37),
          W(<<"D", "o", "e">>, 28, 35, 32, 37) >>,
       << W(<<"A", "B">>, 20, 30, 26, 32) >>,
       << W(<<"A", "A", "B", "B">>, 34, 35, 40, 37) >>,
       << W(<<"1", "0", "0", ".", "0", "0">>, 54, 17, 62, 18), W(<<"1", "0", "0", ".", "0", "0">>, 68, 17, 76, 18) >>,
       << W(<<"F", "e", "d", "e", "r", "a", "l">>, 10, 60, 20, 62), W(<<"2">>, 22, 60, 24, 62),
          W(<<"5", "5", ".", "0", "0">>, 26, 60, 32, 62) >>,
       << W(<<"1">>, 50, 60, 52, 62), W(<<"$", "1", ",", "0", "0", "0", ".", "0", "0">>, 54, 60, 62, 62) >>,
       << W(<<"t", "h", "e">>, 60, 40, 64, 42), W(<<>>, 65, 40, 66, 42),
          W(<<"B", "i", "g">>, 67, 40, 72, 42) >>,
       << W(<<"2", "0", "2", "3">>, 40, 90, 50, 94) >>,
       << W(<<"1", "2", "-", "3", "4", "5", "6", "7", "8", "9">>, 30, 17, 40, 19) >>,
       << W(<<"A", "c", "m", "e">>, 20, 22, 28, 24), W(<<"I", "n", "c">>, 30, 22, 36, 24) >> >>

\* the pieces of the documents that are classified
ClassifierSegments ==
    << << W(<<"W", "-", "2">>, 8, 0, 14, 2) >>,
       << W(<<"C", "o", "p", "y">>, 60, 0, 66, 2), W(<<"B">>, 67, 0, 69, 2) >>,
       << W(<<"I", "n", "v", "o", "i", "c", "e">>, 40, 4, 50, 6) >> >>

\* the words printed in two corners of a page
TopLeft == W(<<"F", "o", "r", "m">>, 0, 0, 6, 2)
BottomRight == W(<<"O", "M", "B">>, 94, 98, 100, 100)

\* A document has at most MaxSegs pieces
MaxSegs == 2

RECURSIVE Concat(_, _, _)
\* the pieces of catalog whose index is in S, in the order of the catalog
Concat(catalog, S, k) ==
    IF k > Len(catalog) THEN <<>>
    ELSE (IF k \in S THEN catalog[k] ELSE <<>>) \o Concat(catalog, S, k + 1)

\* the entries of a document; a framed document has the two corner words
Entries(catalog, S, framed) ==
    IF framed THEN <<TopLeft>> \o Concat(catalog, S, 1) \o <<BottomRight>>
    ELSE Concat(catalog, S, 1)

Choices(catalog) == {S \in SUBSET (1..Len(catalog)) : Cardinality(S) <= MaxSegs}

WordsOf(entries) == [i \in 1..Len(entries) |-> entries[i].word]
BoxesOf(entries) == [i \in 1..Len(entries) |-> entries[i].box]

RECURSIVE JoinedText(_)
\* combined_text += word.value + " " for every word (extract_doctr_data)
JoinedText(ws) ==
    IF ws = <<>> THEN <<>> ELSE ws[1] \o <<" ">> \o JoinedText(Tail(ws))

\* the texts that are classified directly
ClassifierTexts ==
    {JoinedText(WordsOf(Entries(ClassifierSegments, S, FALSE))) :
        S \in Choices(ClassifierSegments)}

\* ------------------------------------------------------------------------
\* The state
\* ------------------------------------------------------------------------

VARIABLES
    entry,                  \* the operation that is running
    doctr_model,            \* TargetedExtractor.doctr_model is not None
    doc_type,               \* the doc_type argument, then the type in use
    confidence,             \* classification confidence of process_document
    words,                  \* the words of the document, in OCR order
    coordinates,            \* their boxes
    combined_text,          \* the text of the document
    visualization,          \* what create_visualization returns for the file
    box_regions,            \* the box ids with a region in W2_FORM_REGIONS
    pc,                     \* the point the running operation has reached
    template_results,       \* template_results of W2Extractor.extract_fields
    extracted_fields,       \* extracted_fields of W2Extractor.extract_fields
    field_index,            \* the field of field_extraction_methods in turn
    method_index,           \* the method of that field in turn
    calls,                  \* the methods evaluated so far, in order
    first_pass,             \* extracted_fields when the chains were done
    reextracted,            \* the stricter re-extraction of federal_tax
    returned,               \* what extractor.extract_fields returned
    outcome,                \* what the operation returned or raised
    description_embeddings, \* DocumentClassifier.description_embeddings
    provider,               \* the embeddings the provider has computed
    history,                \* the classify calls made, with their results
    threads                 \* the calls that run concurrently on the classifier

vars ==
    <<entry, doctr_model, doc_type, confidence, words, coordinates, combined_text,
      visualization, box_regions, pc, template_results, extracted_fields, field_index,
      method_index, calls, first_pass, reextracted, returned, outcome,
      description_embeddings, provider, history, threads>>

Document == <<words, coordinates, combined_text>>
Extraction ==
    <<template_results, extracted_fields, field_index, method_index, calls,
      first_pass, reextracted, returned>>
Classifier == <<description_embeddings, provider, history, threads>>

\* a dict with no key
EmptyDict == [f \in {} |-> None]

\* d with d[key] = value
Put(d, key, value) == [f \in DOMAIN d \cup {key} |-> IF f = key THEN value ELSE d[f]]

\* d without key
Pop(d, key) == [f \in DOMAIN d \ {key} |-> d[f]]

\* d.get(key)
Get(d, key) == IF key \in DOMAIN d THEN d[key] ELSE None

\* what an operation returned or raised
NoOutcome == [k |-> "none", fields |-> EmptyDict, error |-> ""]
Result(fields) == [k |-> "result", fields |-> fields, error |-> ""]
Exception(error) == [k |-> "exception", fields |-> EmptyDict, error |-> error]

\* _get_description_embeddings: one embedding per type description.  The
\* provider is a fixed function that the model does not know: the
\* descriptions lie MaxSpread or fewer steps apart.
MaxSpread == 2
PrototypeSets ==
    {[t \in {TypeLabels[k] : k \in 1..Len(TypeLabels)} |->
         (((CHOOSE k \in 1..Len(TypeLabels) : TypeLabels[k] = t) - 1) * spread)
             % Len(Cosines)] : spread \in 0..MaxSpread}

\* At most MaxThreads calls run at the same time on one classifier
MaxThreads == 2
Threads == 1..MaxThreads

\* a thread that has made no call
Idle ==
    [pc |-> "idle", op |-> "", text |-> <<>>, label |-> <<>>, prototypes |-> EmptyDict,
     text_embedding |-> None, result |-> NoOutcome]
NoThreads == [t \in Threads |-> Idle]

\* the saved path of a visualization
VisualizationPath == Some(<<"d", "o", "c", "_", "v", "i", "s", "u", "a", "l", "i", "z", "a", "t", "i", "o", "n", ".", "p", "n", "g">>)

InitExtraction ==
    /\ template_results = EmptyDict
    /\ extracted_fields = EmptyDict
    /\ field_index = 1
    /\ method_index = 1
    /\ calls = <<>>
    /\ first_pass = EmptyDict
    /\ reextracted = [run |-> FALSE, value |-> None]
    /\ returned = NoOutcome
    /\ outcome = NoOutcome
    /\ pc = "call"
    /\ confidence = 0
    /\ provider = EmptyDict
    /\ history = <<>>
    /\ threads = NoThreads

\* _extract_words_and_coordinates for a file that is not a PDF: the words
\* of the text in a row, word i at x0 = 10 i, y0 = 10, 5 wide for each
\* character and 10 high
DummyBoxes(ws) ==
    [i \in 1..Len(ws) |->
        <<1000 * (i - 1), 1000, 1000 * (i - 1) + 500 * Len(ws[i]), 2000>>]

\* The documents whose fields are extracted: TargetedExtractor.extract_fields
\* and ProcessorService.process_document with the type given by the caller
\* (for process_document the text is that of extract_document_content and
\* the words are those of the word layer of the PDF, which a scanned file
\* does not have)
Init ==
    /\ InitExtraction
    /\ entry \in {"targeted", "service"}
    /\ \E S \in Choices(Segments), framed \in BOOLEAN, word_layer \in BOOLEAN :
          LET entries == Entries(Segments, S, framed)
          IN /\ entry = "targeted" => word_layer
             /\ words = IF word_layer THEN WordsOf(entries) ELSE <<>>
             /\ coordinates = IF word_layer THEN BoxesOf(entries) ELSE <<>>
             /\ combined_text = JoinedText(WordsOf(entries))
    /\ doctr_model \in (IF entry = "targeted" THEN BOOLEAN ELSE {TRUE})
    /\ doc_type \in {Some(W2Label), Some(<<"T", "a", "x", " ", "R", "e", "t", "u", "r", "n">>)}
    /\ visualization = IF entry = "targeted" /\ doctr_model /\ words # <<>>
                       THEN VisualizationPath ELSE None
    /\ description_embeddings \in {CHOOSE p \in PrototypeSets : TRUE}
    /\ box_regions = BoxIds

\* The documents that are classified: classify called directly, and
\* process_document with no type given
ClassifierInit ==
    /\ InitExtraction
    /\ entry \in {"classify", "service"}
    /\ \E S \in Choices(ClassifierSegments), kind \in {"pdf", "image"} :
          LET entries == Entries(ClassifierSegments, S, FALSE)
          IN /\ words = WordsOf(entries)
             /\ coordinates = IF kind = "pdf" THEN BoxesOf(entries)
                               ELSE DummyBoxes(WordsOf(entries))
             /\ combined_text = JoinedText(WordsOf(entries))
             /\ entry = "classify" => S = {} /\ kind = "pdf"
             /\ visualization \in (IF entry = "service" /\ kind = "image"
                                    THEN {None, VisualizationPath} ELSE {None})
    /\ doctr_model = TRUE
    /\ doc_type = None
    /\ description_embeddings \in PrototypeSets
    /\ box_regions = BoxIds

\* ------------------------------------------------------------------------
\* W2Extractor.extract_fields, step by step
\* ------------------------------------------------------------------------

\* the keys of field_extraction_methods, in the order of the dict
FieldOrder ==
    <<"employee_name", "employee_ssn", "employer_name", "employer_ein",
      "control_number", "wages", "federal_tax", "social_security_wages",
      "social_security_tax", "medicare_wages", "medicare_tax", "tax_year">>

\* every field has two methods: the template value, then a fallback
MethodCount == 2

\* the box number that the second method of a box field is called with
BoxNumber(field) ==
    CASE field = "wages" -> <<"1">>
      [] field = "federal_tax" -> <<"2">>
      [] field = "social_security_wages" -> <<"3">>
      [] field = "social_security_tax" -> <<"4">>
      [] field = "medicare_wages" -> <<"5">>
      [] field = "medicare_tax" -> <<"6">>

\* the second method of a field
Fallback(field, ws, cs, text) ==
    CASE field = "employee_name" -> ExtractEmployeeName(ws, cs, text)
      [] field = "employee_ssn" -> ExtractSsn(ws, cs, text)
      [] field = "employer_name" -> ExtractEmployerName(ws, cs, text)
      [] field = "employer_ein" -> ExtractEmployerEin(ws, cs, text)
      [] field = "control_number" -> ExtractControlNumber(ws, cs, text)
      [] field = "tax_year" -> ExtractTaxYear(ws, cs, text)
      [] OTHER -> ExtractBoxValue(ws, cs, text, BoxNumber(field))

\* field_extraction_methods[field][method - 1]()
MethodValue(field, method) ==
    IF method = 1 THEN Get(template_results, field)
    ELSE Fallback(field, words, coordinates, combined_text)

\* lines 46-55: the text blocks, the template pass, the empty result
W2Prepare ==
    /\ pc = "w2_prepare"
    /\ IF PrepareRaises(words, coordinates)
       THEN /\ pc' = "extractor_raised"
            /\ returned' = Exception("ZeroDivisionError")
            /\ UNCHANGED <<template_results, extracted_fields, field_index, method_index,
                           calls, first_pass, reextracted>>
       ELSE /\ pc' = "w2_chain"
            /\ template_results' =
                   ProcessW2Form(words, coordinates, entry = "service", visualization,
                                 box_regions)
            /\ extracted_fields' = EmptyDict
            /\ field_index' = 1
            /\ method_index' = 1
            /\ UNCHANGED <<calls, first_pass, reextracted, returned>>
    /\ UNCHANGED <<entry, doctr_model, doc_type, confidence, Document, visualization, box_regions,
                   outcome, Classifier>>

\* the loops without the break of line 113: every method of a field is run
LoopAdvanceNoBreak(truthy) ==
    IF method_index < MethodCount
    THEN /\ method_index' = method_index + 1
         /\ UNCHANGED <<pc, field_index>>
    ELSE IF field_index < Len(FieldOrder)
    THEN /\ field_index' = field_index + 1
         /\ method_index' = 1
         /\ UNCHANGED pc
    ELSE /\ pc' = "w2_repair_name"
         /\ UNCHANGED <<field_index, method_index>>

\* lines 110-113: where the two loops go after a method of the field in turn
\* returned.  A truthy value ends the chain of the field (break), and so
\* does its last method; after the last field the loops are left.
LoopAdvance(truthy) ==
    IF ~truthy /\ method_index < MethodCount
    THEN /\ method_index' = method_index + 1
         /\ UNCHANGED <<pc, field_index>>
    ELSE IF field_index < Len(FieldOrder)
    THEN /\ field_index' = field_index + 1
         /\ method_index' = 1
         /\ UNCHANGED pc
    ELSE /\ pc' = "w2_repair_name"
         /\ UNCHANGED <<field_index, method_index>>

\* lines 110-115: one method of one field is evaluated and its value is
\* recorded when it is truthy; an exception leaves extract_fields.  calls
\* logs the method and what it returned, first_pass is extracted_fields as
\* the loops leave it.
TryMethod ==
    /\ pc = "w2_chain"
    /\ LET Step(field, value) ==
               /\ calls' = Append(calls, [field |-> field, method |-> method_index,
                                          value |-> value])
               /\ IF value.k = "raise"
                  THEN /\ pc' = "extractor_raised"
                       /\ returned' = Exception("IndexError")
                       /\ UNCHANGED <<extracted_fields, field_index, method_index>>
                  ELSE /\ extracted_fields' = IF Truthy(value)
                                              THEN Put(extracted_fields, field, value)
                                              ELSE extracted_fields
                       /\ LoopAdvance(Truthy(value))
                       /\ UNCHANGED returned
               /\ first_pass' = extracted_fields'
       IN Step(FieldOrder[field_index], MethodValue(FieldOrder[field_index], method_index))
    /\ UNCHANGED <<entry, doctr_model, doc_type, confidence, Document, visualization, box_regions,
                   template_results, reextracted, outcome, Classifier>>

\* lines 119-124: the control number is removed from the employee name
RepairEmployeeName ==
    /\ pc = "w2_repair_name"
    /\ pc' = "w2_repair_tax"
    /\ extracted_fields' =
           IF /\ "employee_name" \in DOMAIN extracted_fields
              /\ "control_number" \in DOMAIN extracted_fields
              /\ Contains(extracted_fields["employee_name"].v,
                          extracted_fields["control_number"].v)
           THEN Put(extracted_fields, "employee_name",
                    Some(StrStrip(StrRemove(extracted_fields["employee_name"].v,
                                            extracted_fields["control_number"].v))))
           ELSE extracted_fields
    /\ UNCHANGED <<entry, doctr_model, doc_type, confidence, Document, visualization, box_regions,
                   template_results, field_index, method_index, calls, first_pass,
                   reextracted, returned, outcome, Classifier>>

\* the repair without the comparison of line 128
DuplicateTaxUnchecked(fields) ==
    /\ "federal_tax" \in DOMAIN fields
    /\ "wages" \in DOMAIN fields

\* the duplicate that lines 127-128 look for
DuplicateTax(fields) ==
    /\ "federal_tax" \in DOMAIN fields
    /\ "wages" \in DOMAIN fields
    /\ fields["federal_tax"] = fields["wages"]

\* lines 126-134: a federal tax equal to the wages is extracted again
RepairFederalTax ==
    /\ pc = "w2_repair_tax"
    /\ pc' = "w2_validate"
    /\ IF DuplicateTax(extracted_fields)
       THEN LET Replace(federal_tax) ==
                    /\ reextracted' = [run |-> TRUE, value |-> federal_tax]
                    /\ extracted_fields' =
                           IF Truthy(federal_tax)
                           THEN Put(extracted_fields, "federal_tax", federal_tax)
                           ELSE extracted_fields
            IN Replace(ExtractBoxValueWithContext(words, coordinates, combined_text,
                                                  <<"2">>, <<"F", "e", "d", "e", "r", "a", "l">>))
       ELSE UNCHANGED <<reextracted, extracted_fields>>
    /\ UNCHANGED <<entry, doctr_model, doc_type, confidence, Document, visualization, box_regions,
                   template_results, field_index, method_index, calls, first_pass,
                   returned, outcome, Classifier>>

\* lines 136-146: the validation, whose results are only logged; the path
\* of the visualization is added and the dict is returned
W2Return ==
    /\ pc = "w2_validate"
    /\ LET Leave(validated) ==
               IF validated.k = "exception"
               THEN /\ pc' = "extractor_raised"
                    /\ returned' = Exception(validated.error)
                    /\ UNCHANGED extracted_fields
               ELSE /\ pc' = "extractor_returned"
                    /\ extracted_fields' =
                           IF "_visualization_path" \in DOMAIN template_results
                           THEN Put(validated.extracted_data, "_visualization_path",
                                    template_results["_visualization_path"])
                           ELSE validated.extracted_data
                    /\ returned' = Result(extracted_fields')
       IN Leave(ValidateW2Extraction(extracted_fields))
    /\ UNCHANGED <<entry, doctr_model, doc_type, confidence, Document, visualization, box_regions,
                   template_results, field_index, method_index, calls, first_pass,
                   reextracted, outcome, Classifier>>

\* ------------------------------------------------------------------------
\* classify, and the two callers of extract_fields
\* ------------------------------------------------------------------------

\* the entry of history for a call that returned (label, confidence)
Returned(text, encoded, label, conf) ==
    [text |-> text, encoded |-> encoded, failed |-> FALSE, k |-> "returned",
     label |-> label, confidence |-> conf, prototypes |-> description_embeddings]

\* a classify that answers a failed encode with a default guess
EncodeFailedGuess(text) ==
    [text |-> text, encoded |-> TRUE, failed |-> TRUE, k |-> "returned",
     label |-> TypeLabels[1], confidence |-> 0, prototypes |-> description_embeddings]

\* classify has no handler around model.encode: its exception leaves classify
EncodeFailed(text) ==
    [text |-> text, encoded |-> TRUE, failed |-> TRUE, k |-> "raised",
     label |-> <<>>, confidence |-> 0, prototypes |-> description_embeddings]

\* What model.encode(sample) can do: fail, or return the embedding of the
\* sample, which is the one it returned before for the same sample
EncodeOutcomes(sample) ==
    {[ok |-> FALSE, angle |-> 0]} \cup
    {[ok |-> TRUE, angle |-> a] :
        a \in (IF sample \in DOMAIN provider THEN {provider[sample]} ELSE Angles)}

\* a classifier whose confidence drifts with the number of calls made
EmbeddingResultDrifting(text_embedding, embeddings) ==
    LET similarities == Similarities(text_embedding, embeddings)
        best_match == BestMatch(similarities)
    IN [label |-> best_match, confidence |-> similarities[best_match] - Len(history)]

\* lines 96-112 of classify: what it returns for a text whose sample has
\* the embedding text_embedding
EmbeddingResult(text_embedding, embeddings) ==
    LET similarities == Similarities(text_embedding, embeddings)
        best_match == BestMatch(similarities)
    IN [label |-> best_match, confidence |-> similarities[best_match]]

\* DocumentClassifier.classify(text)
classify(text) ==
    IF KeywordOverride(text)
    THEN /\ history' = Append(history, Returned(text, FALSE, W2Label, OverrideConfidence))
         /\ UNCHANGED <<description_embeddings, provider, threads>>
    ELSE \E e \in EncodeOutcomes(TextSample(text)) :
            /\ provider' = IF e.ok THEN Put(provider, TextSample(text), e.angle)
                           ELSE provider
            /\ history' =
                   Append(history,
                          IF e.ok
                          THEN LET r == EmbeddingResult(e.angle, description_embeddings)
                               IN Returned(text, TRUE, r.label, r.confidence)
                          ELSE EncodeFailed(text))
            /\ UNCHANGED <<description_embeddings, threads>>

\* A classifier is called at most MaxCalls times
MaxCalls == 2

\* classify called by a client of the classifier
DirectClassify ==
    /\ pc = "call"
    /\ entry = "classify"
    /\ Len(history) < MaxCalls
    /\ \E text \in ClassifierTexts : classify(text)
    /\ UNCHANGED <<entry, doctr_model, doc_type, confidence, Document, visualization, box_regions, pc,
                   Extraction, outcome>>

SentinelValue == Some(<<"N", "o", "t", " ", "f", "o", "u", "n", "d">>)

\* lines 256-266 of TargetedExtractor.extract_fields: the fields of the schema
\* that are missing get the sentinel; "visualization_path" is a key of the
\* result of extract_doctr_data whenever doctr ran
Complete(fields, schema) ==
    LET keys == DOMAIN fields \cup schema
                \cup (IF doctr_model THEN {"_debug_visualization"} ELSE {})
    IN [f \in keys |->
           IF f = "_debug_visualization" /\ doctr_model THEN visualization
           ELSE IF f \in DOMAIN fields THEN fields[f]
           ELSE SentinelValue]

\* TargetedExtractor.extract_fields, lines 242-255: the OCR pass, the
\* extractor of the registry, and the call of its extract_fields when there
\* are words
TargetedStart ==
    /\ pc = "call"
    /\ entry = "targeted"
    /\ IF doctr_model /\ words # <<>>
       THEN /\ pc' = IF GetExtractor(doc_type.v) = "W2Extractor" THEN "w2_prepare"
                     ELSE "generic"
            /\ UNCHANGED outcome
       ELSE /\ pc' = "done"
            /\ outcome' = Result(Complete(EmptyDict, GetFieldSchema(GetExtractor(doc_type.v))))
    /\ UNCHANGED <<entry, doctr_model, doc_type, confidence, Document, visualization, box_regions,
                   Extraction, Classifier>>

\* GenericDocumentExtractor.extract_fields
GenericExtract ==
    /\ pc = "generic"
    /\ LET Leave(fields) ==
               IF fields.k = "raise"
               THEN pc' = "extractor_raised" /\ returned' = Exception("IndexError")
               ELSE pc' = "extractor_returned" /\ returned' = Result(fields.v)
       IN Leave(GenericExtractFields(words, coordinates, combined_text))
    /\ UNCHANGED <<entry, doctr_model, doc_type, confidence, Document, visualization, box_regions,
                   template_results, extracted_fields, field_index, method_index, calls,
                   first_pass, reextracted, outcome, Classifier>>

\* TargetedExtractor.extract_fields, lines 256-271
TargetedFinish ==
    /\ pc = "extractor_returned"
    /\ entry = "targeted"
    /\ pc' = "done"
    /\ outcome' = Result(Complete(returned.fields, GetFieldSchema(GetExtractor(doc_type.v))))
    /\ UNCHANGED <<entry, doctr_model, doc_type, confidence, Document, visualization, box_regions,
                   Extraction, Classifier>>

\* TargetedExtractor.extract_fields has no handler: an exception of the
\* extractor is its own
TargetedPropagate ==
    /\ pc = "extractor_raised"
    /\ entry = "targeted"
    /\ pc' = "done"
    /\ outcome' = returned
    /\ UNCHANGED <<entry, doctr_model, doc_type, confidence, Document, visualization, box_regions,
                   Extraction, Classifier>>

\* the extractor process_document selects, and the call of its extract_fields
Dispatch(label) ==
    IF ServiceExtractor(label) = "W2Extractor"
    THEN pc' = "w2_prepare" /\ UNCHANGED returned
    ELSE pc' = "service_raised" /\ returned' = Exception("AttributeError")

\* ProcessorService.process_document, lines 67-105: the text of the file (an
\* empty text is an error), the classification when no type is given, the
\* words, and the extractor for the type
ServiceStart ==
    /\ pc = "call"
    /\ entry = "service"
    /\ IF StrStrip(combined_text) = <<>>
       THEN /\ pc' = "service_raised"
            /\ returned' = Exception("EmptyTextError")
            /\ UNCHANGED <<doc_type, confidence, Classifier>>
       ELSE IF doc_type = None
       THEN /\ classify(combined_text)
            /\ LET call == history'[Len(history')]
               IN IF call.k = "raised"
                  THEN /\ pc' = "service_raised"
                       /\ returned' = Exception("EncodeError")
                       /\ UNCHANGED <<doc_type, confidence>>
                  ELSE /\ doc_type' = Some(call.label)
                       /\ confidence' = call.confidence
                       /\ Dispatch(call.label)
       ELSE /\ confidence' = 100
            /\ Dispatch(doc_type.v)
            /\ UNCHANGED <<doc_type, Classifier>>
    /\ UNCHANGED <<entry, doctr_model, Document, visualization, box_regions, template_results,
                   extracted_fields, field_index, method_index, calls, first_pass,
                   reextracted, outcome>>

\* process_document, lines 107-139: the result is put together; the path of
\* the visualization is taken out of the fields, and a path that is None
\* has no startswith
ServiceFinish ==
    /\ pc = "extractor_returned"
    /\ entry = "service"
    /\ IF Get(returned.fields, "_visualization_path") = None
          /\ "_visualization_path" \in DOMAIN returned.fields
       THEN pc' = "service_raised" /\ returned' = Exception("AttributeError")
                                   /\ UNCHANGED outcome
       ELSE pc' = "done" /\ outcome' = Result(Pop(returned.fields, "_visualization_path"))
                         /\ UNCHANGED returned
    /\ UNCHANGED <<entry, doctr_model, doc_type, confidence, Document, visualization, box_regions,
                   template_results, extracted_fields, field_index, method_index, calls,
                   first_pass, reextracted, Classifier>>

\* process_document, lines 141-144: every exception becomes a ProcessingError
ServiceFail ==
    /\ pc \in {"extractor_raised", "service_raised"}
    /\ entry = "service"
    /\ pc' = "done"
    /\ outcome' = Exception("ProcessingError")
    /\ UNCHANGED <<entry, doctr_model, doc_type, confidence, Document, visualization, box_regions,
                   Extraction, Classifier>>

Next ==
    \/ TargetedStart
    \/ GenericExtract
    \/ TargetedFinish
    \/ TargetedPropagate
    \/ ServiceStart
    \/ W2Prepare
    \/ TryMethod
    \/ RepairEmployeeName
    \/ RepairFederalTax
    \/ W2Return
    \/ ServiceFinish
    \/ ServiceFail

Spec == Init /\ [][Next]_vars

ClassifierNext ==
    \/ DirectClassify
    \/ ServiceStart
    \/ W2Prepare
    \/ TryMethod
    \/ RepairEmployeeName
    \/ RepairFederalTax
    \/ W2Return
    \/ ServiceFinish
    \/ ServiceFail

ClassifierSpec == ClassifierInit /\ [][ClassifierNext]_vars

\* The layouts of W2_FORM_REGIONS that are tried: the layout of the module,
\* and the same layout with the region of box a, of box 1 or of both taken
\* out (the table of the module has a region for the box of every field)
Layouts == {BoxIds \ gone : gone \in SUBSET {"a", "1"}}

\* with a layout that is not that of the module a document has at most
\* MaxLayoutSegs pieces
MaxLayoutSegs == 1

\* The documents of Init whose fields are extracted with one of the layouts
LayoutInit ==
    /\ InitExtraction
    /\ entry \in {"targeted", "service"}
    /\ \E S \in Choices(Segments), framed \in BOOLEAN, word_layer \in BOOLEAN :
          LET entries == Entries(Segments, S, framed)
          IN /\ Cardinality(S) <= MaxLayoutSegs
             /\ entry = "targeted" => word_layer
             /\ words = IF word_layer THEN WordsOf(entries) ELSE <<>>
             /\ coordinates = IF word_layer THEN BoxesOf(entries) ELSE <<>>
             /\ combined_text = JoinedText(WordsOf(entries))
    /\ doctr_model \in (IF entry = "targeted" THEN BOOLEAN ELSE {TRUE})
    /\ doc_type \in {Some(W2Label), Some(<<"T", "a", "x", " ", "R", "e", "t", "u", "r", "n">>)}
    /\ visualization = IF entry = "targeted" /\ doctr_model /\ words # <<>>
                       THEN VisualizationPath ELSE None
    /\ description_embeddings \in {CHOOSE p \in PrototypeSets : TRUE}
    /\ box_regions \in Layouts

LayoutSpec == LayoutInit /\ [][Next]_vars

\* ------------------------------------------------------------------------
\* Functions called on their own
\* ------------------------------------------------------------------------

\* _prepare_text_blocks(words, coordinates): one block for every word, its
\* x, y, width and height as fractions <<numerator, denominator>>, or the
\* ZeroDivisionError of the first division by a zero extent
PrepareTextBlocks(ws, cs) ==
    IF PrepareRaises(ws, cs) THEN Exception("ZeroDivisionError")
    ELSE [k |-> "text_blocks",
          text_blocks |->
              [i \in 1..Len(ws) |->
                  [text |-> ws[i],
                   x |-> <<XNum(cs, i), XDen(cs)>>,
                   y |-> <<YNum(cs, i), YDen(cs)>>,
                   width |-> <<cs[i][3] - cs[i][1], DocWidth(cs)>>,
                   height |-> <<cs[i][4] - cs[i][2], DocHeight(cs)>>,
                   abs_coords |-> cs[i]]]]

\* the boxes of the words that are normalised: upright boxes, boxes left of
\* and above the origin, a box given by its lower right corner first, and
\* boxes without width or without height
SampleBoxes ==
    << <<100, 50, 300, 100>>, <<300, 100, 500, 150>>, <<200, 75, 400, 125>>,
       <<-400, -400, -200, -200>>, <<-600, -300, -400, -100>>,
       <<400, 400, 200, 200>>,
       <<200, 0, 200, 400>>, <<-200, 0, -200, 400>>, <<0, 200, 600, 200>> >>

\* at most MaxBoxes words are normalised
MaxBoxes == 2

RECURSIVE BoxLists(_)
\* the lists of n sample boxes
BoxLists(n) ==
    IF n = 0 THEN {<<>>}
    ELSE {<<SampleBoxes[k]>> \o rest : k \in 1..Len(SampleBoxes), rest \in BoxLists(n - 1)}

\* the word of every sample box
SampleWord == <<"w">>

\* the values of the dicts that are validated: for every key a value of
\* the right format, and for most a malformed one
SampleValues ==
    [employee_ssn |-> <<Some(<<"1", "2", "3", "-", "4", "5", "-", "6", "7", "8", "9">>), Some(<<"1", "2", "-", "1", "2", "3", "-", "4", "5">>)>>,
     control_number |-> <<Some(<<"A", "B", "1", "2", "3">>), Some(<<"A", "-", "1">>)>>,
     wages |-> <<Some(<<"1", ",", "0", "0", "0", ".", "0", "0">>), Some(<<"1", "0", "0">>)>>,
     tax_year |-> <<Some(<<"2", "0", "2", "3">>), Some(<<"2", "3">>)>>,
     state_wages |-> <<Some(<<"5", ".", "0", "0">>)>>,
     _visualization_path |-> <<VisualizationPath>>]

\* the dicts that are validated: any of the keys of SampleValues, each with
\* one of its values
SampleData ==
    {[f \in {g \in DOMAIN SampleValues : pick[g] > 0} |-> SampleValues[f][pick[f]]] :
        pick \in {p \in [DOMAIN SampleValues -> 0..2] :
                     \A g \in DOMAIN SampleValues : p[g] <= Len(SampleValues[g])}}

\* the methods of BaseDocumentExtractor that a class overrides: the two of
\* the base class raise NotImplementedError
Implements(extractor) ==
    IF extractor \in {"W2Extractor", "GenericDocumentExtractor"}
    THEN {"get_field_schema", "extract_fields"}
    ELSE {}

\* extractors.get(doc_type) for a doc_type that is a str or None, and the
\* class that get_extractor instantiates
GetExtractorFor(label) ==
    IF label.k = "val" THEN GetExtractor(label.v) ELSE "GenericDocumentExtractor"

\* the labels get_extractor is called with
SampleLabels ==
    {None, Some(<<>>), Some(W2Label), Some(StrLower(W2Label)), Some(<<"W", "2">>),
     Some(<<"T", "a", "x", " ", "R", "e", "t", "u", "r", "n">>)}

\* The calls of the three functions: _prepare_text_blocks with a list of
\* boxes, validate_w2_extraction with a dict, get_extractor with a label
FunctionInit ==
    /\ entry \in {"prepare", "validate", "get_extractor"}
    /\ \/ /\ entry = "prepare"
          /\ coordinates \in UNION {BoxLists(n) : n \in 0..MaxBoxes}
          /\ extracted_fields = EmptyDict
          /\ doc_type = None
       \/ /\ entry = "validate"
          /\ coordinates = <<>>
          /\ extracted_fields \in SampleData
          /\ doc_type = None
       \/ /\ entry = "get_extractor"
          /\ coordinates = <<>>
          /\ extracted_fields = EmptyDict
          /\ doc_type \in SampleLabels
    /\ words = [i \in 1..Len(coordinates) |-> SampleWord]
    /\ combined_text = JoinedText(words)
    /\ doctr_model = TRUE
    /\ visualization = None
    /\ box_regions = BoxIds
    /\ description_embeddings \in {CHOOSE p \in PrototypeSets : TRUE}
    /\ template_results = EmptyDict
    /\ field_index = 1
    /\ method_index = 1
    /\ calls = <<>>
    /\ first_pass = EmptyDict
    /\ reextracted = [run |-> FALSE, value |-> None]
    /\ returned = NoOutcome
    /\ outcome = NoOutcome
    /\ pc = "call"
    /\ confidence = 0
    /\ provider = EmptyDict
    /\ history = <<>>
    /\ threads = NoThreads

\* W2Extractor._prepare_text_blocks(words, coordinates)
PrepareCall ==
    /\ pc = "call"
    /\ entry = "prepare"
    /\ pc' = "done"
    /\ outcome' = PrepareTextBlocks(words, coordinates)
    /\ UNCHANGED <<entry, doctr_model, doc_type, confidence, Document, visualization, box_regions,
                   Extraction, Classifier>>

\* validate_w2_extraction(extracted_data)
ValidateCall ==
    /\ pc = "call"
    /\ entry = "validate"
    /\ pc' = "done"
    /\ LET Leave(result) ==
               /\ extracted_fields' = result.extracted_data
               /\ outcome' = result
       IN Leave(ValidateW2Extraction(extracted_fields))
    /\ UNCHANGED <<entry, doctr_model, doc_type, confidence, Document, visualization, box_regions,
                   template_results, field_index, method_index, calls, first_pass,
                   reextracted, returned, Classifier>>

\* DocumentExtractorFactory.get_extractor(doc_type)
GetExtractorCall ==
    /\ pc = "call"
    /\ entry = "get_extractor"
    /\ pc' = "done"
    /\ outcome' = [k |-> "extractor", extractor |-> GetExtractorFor(doc_type)]
    /\ UNCHANGED <<entry, doctr_model, doc_type, confidence, Document, visualization, box_regions,
                   Extraction, Classifier>>

FunctionNext ==
    \/ PrepareCall
    \/ ValidateCall
    \/ GetExtractorCall

FunctionSpec == FunctionInit /\ [][FunctionNext]_vars

\* ------------------------------------------------------------------------
\* Calls that run at the same time on one classifier
\* ------------------------------------------------------------------------

\* TYPE_KEYWORDS of DocumentClassifier
TYPE_KEYWORDS ==
    <<"K", "1", " ", "(", "S", "c", "h", "e", "d", "u", "l", "e", " ", "K", "-", "1", ")">> :>
        << <<"s", "c", "h", "e", "d", "u", "l", "e", " ", "k", "-", "1">>,
           <<"f", "o", "r", "m", " ", "1", "0", "6", "5">>,
           <<"p", "a", "r", "t", "n", "e", "r", "'", "s", " ", "s", "h", "a", "r", "e">>,
           <<"p", "a", "r", "t", "n", "e", "r", "s", "h", "i", "p">>,
           <<"t", "a", "x", " ", "y", "e", "a", "r">> >> @@
    <<"K", "2", " ", "(", "S", "c", "h", "e", "d", "u", "l", "e", " ", "K", "-", "2", ")">> :>
        << <<"s", "c", "h", "e", "d", "u", "l", "e", " ", "k", "-", "2">>,
           <<"s", "u", "p", "p", "l", "e", "m", "e", "n", "t", "a", "l", " ", "i", "n", "f", "o", "r", "m", "a", "t", "i", "o", "n">>,
           <<"i", "n", "t", "e", "r", "n", "a", "t", "i", "o", "n", "a", "l", " ", "t", "a", "x">> >> @@
    <<"W", "1", " ", "(", "F", "o", "r", "m", " ", "W", "-", "1", ")">> :>
        << <<"f", "o", "r", "m", " ", "w", "-", "1">>,
           <<"w", "a", "g", "e", " ", "a", "n", "d", " ", "t", "a", "x", " ", "s", "t", "a", "t", "e", "m", "e", "n", "t">> >> @@
    <<"W", "2", " ", "(", "F", "o", "r", "m", " ", "W", "-", "2", ")">> :>
        << <<"w", "-", "2">>,
           <<"w", "a", "g", "e", " ", "a", "n", "d", " ", "t", "a", "x", " ", "s", "t", "a", "t", "e", "m", "e", "n", "t">>,
           <<"f", "o", "r", "m", " ", "w", "-", "2">>,
           <<"e", "m", "p", "l", "o", "y", "e", "e", "'", "s", " ", "f", "e", "d", "e", "r", "a", "l", " ", "t", "a", "x", " ", "r", "e", "t", "u", "r", "n">>,
           <<"e", "m", "p", "l", "o", "y", "e", "r", " ", "i", "d", "e", "n", "t", "i", "f", "i", "c", "a", "t", "i", "o", "n", " ", "n", "u", "m", "b", "e", "r">>,
           <<"s", "o", "c", "i", "a", "l", " ", "s", "e", "c", "u", "r", "i", "t", "y", " ", "w", "a", "g", "e", "s">> >> @@
    <<"T", "a", "x", " ", "R", "e", "t", "u", "r", "n">> :>
        << <<"t", "a", "x", " ", "r", "e", "t", "u", "r", "n">>,
           <<"f", "o", "r", "m", " ", "1", "0", "4", "0">>,
           <<"i", "n", "c", "o", "m", "e", " ", "t", "a", "x">> >> @@
    <<"S", "h", "a", "r", "e", "h", "o", "l", "d", "e", "r", " ", "M", "e", "e", "t", "i", "n", "g", " ", "N", "o", "t", "i", "c", "e">> :>
        << <<"s", "h", "a", "r", "e", "h", "o", "l", "d", "e", "r", " ", "m", "e", "e", "t", "i", "n", "g">>,
           <<"a", "n", "n", "u", "a", "l", " ", "m", "e", "e", "t", "i", "n", "g">>,
           <<"p", "r", "o", "x", "y", " ", "s", "t", "a", "t", "e", "m", "e", "n", "t">> >> @@
    <<"P", "r", "o", "x", "y", " ", "S", "t", "a", "t", "e", "m", "e", "n", "t">> :>
        << <<"p", "r", "o", "x", "y", " ", "s", "t", "a", "t", "e", "m", "e", "n", "t">>,
           <<"v", "o", "t", "i", "n", "g">>,
           <<"b", "o", "a", "r", "d", " ", "o", "f", " ", "d", "i", "r", "e", "c", "t", "o", "r", "s">> >> @@
    <<"F", "i", "n", "a", "n", "c", "i", "a", "l", " ", "S", "t", "a", "t", "e", "m", "e", "n", "t">> :>
        << <<"f", "i", "n", "a", "n", "c", "i", "a", "l", " ", "s", "t", "a", "t", "e", "m", "e", "n", "t">>,
           <<"b", "a", "l", "a", "n", "c", "e", " ", "s", "h", "e", "e", "t">>,
           <<"i", "n", "c", "o", "m", "e", " ", "s", "t", "a", "t", "e", "m", "e", "n", "t">>,
           <<"c", "a", "s", "h", " ", "f", "l", "o", "w">> >> @@
    <<"S", "E", "C", " ", "F", "i", "l", "i", "n", "g">> :>
        << <<"s", "e", "c", " ", "f", "i", "l", "i", "n", "g">>,
           <<"f", "o", "r", "m", " ", "1", "0", "-", "k">>, <<"f", "o", "r", "m", " ", "1", "0", "-", "q">>,
           <<"e", "d", "g", "a", "r">> >> @@
    <<"L", "o", "a", "n", " ", "A", "g", "r", "e", "e", "m", "e", "n", "t">> :>
        << <<"l", "o", "a", "n", " ", "a", "g", "r", "e", "e", "m", "e", "n", "t">>,
           <<"b", "o", "r", "r", "o", "w", "e", "r">>, <<"l", "e", "n", "d", "e", "r">>,
           <<"t", "e", "r", "m", "s", " ", "a", "n", "d", " ", "c", "o", "n", "d", "i", "t", "i", "o", "n", "s">> >> @@
    <<"I", "n", "v", "e", "s", "t", "m", "e", "n", "t", " ", "A", "g", "r", "e", "e", "m", "e", "n", "t">> :>
        << <<"i", "n", "v", "e", "s", "t", "m", "e", "n", "t", " ", "a", "g", "r", "e", "e", "m", "e", "n", "t">>,
           <<"i", "n", "v", "e", "s", "t", "o", "r">>, <<"e", "q", "u", "i", "t", "y">>,
           <<"t", "e", "r", "m", "s", " ", "o", "f", " ", "i", "n", "v", "e", "s", "t", "m", "e", "n", "t">> >>

RECURSIVE JoinComma(_)
\* ', '.join(strings)
JoinComma(strings) ==
    IF strings = <<>> THEN <<>>
    ELSE IF Len(strings) = 1 THEN strings[1]
    ELSE strings[1] \o <<",", " ">> \o JoinComma(Tail(strings))

\* found_keywords with the keywords of every type
FoundKeywordsOfAnyType(text, label) ==
    LET text_lower == StrLower(text)
        Occurs(kw) == Contains(text_lower, kw)
        RECURSIVE All(_)
        All(k) == IF k > Len(TypeLabels) THEN <<>>
                  ELSE TYPE_KEYWORDS[TypeLabels[k]] \o All(k + 1)
    IN SelectSeq(All(1), Occurs)

\* found_keywords of generate_reasoning
FoundKeywords(text, label) ==
    LET text_lower == StrLower(text)
        keywords == IF label \in DOMAIN TYPE_KEYWORDS THEN TYPE_KEYWORDS[label] ELSE <<>>
        Occurs(kw) == Contains(text_lower, kw)
    IN SelectSeq(keywords, Occurs)

\* DocumentClassifier.generate_reasoning(text, doc_type)
GenerateReasoning(text, label) ==
    LET found_keywords == FoundKeywords(text, label)
    IN IF found_keywords # <<>>
       THEN <<"T", "h", "e", " ", "d", "o", "c", "u", "m", "e", "n", "t", " ", "c", "o", "n", "t", "a", "i", "n", "s", " ", "k", "e", "y", "w", "o", "r", "d", "s", " ", "s", "u", "c", "h", " ", "a", "s", " ">>
                \o JoinComma(found_keywords)
                \o <<",", " ", "w", "h", "i", "c", "h", " ", "a", "r", "e", " ", "t", "y", "p", "i", "c", "a", "l", " ", "f", "o", "r", " ">>
                \o label \o <<" ", "d", "o", "c", "u", "m", "e", "n", "t", "s", ".">>
       ELSE <<"T", "h", "e", " ", "d", "o", "c", "u", "m", "e", "n", "t", " ", "w", "a", "s", " ", "c", "l", "a", "s", "s", "i", "f", "i", "e", "d", " ", "a", "s", " ">>
                \o label \o <<" ", "b", "a", "s", "e", "d", " ", "o", "n", " ", "i", "t", "s", " ", "c", "o", "n", "t", "e", "n", "t", ".">>

RECURSIVE Repeat(_, _)
\* string * n
Repeat(string, n) == IF n = 0 THEN <<>> ELSE string \o Repeat(string, n - 1)

\* a text of SampleLimit characters
LongPrefix == Repeat(<<"I", "n", "v", "o", "i", "c", "e", " ">>, 64)

\* the texts of the concurrent calls: a short one, and long ones that are
\* the same up to character SampleLimit
ThreadTexts ==
    {<<"F", "o", "r", "m", " ", "W", "-", "2", " ", "W", "a", "g", "e", " ", "a", "n", "d", " ", "T", "a", "x", " ", "S", "t", "a", "t", "e", "m", "e", "n", "t", " ", "C", "o", "p", "y", " ", "B", " ">>,
     LongPrefix \o <<"a">>,
     LongPrefix \o <<"b">>,
     LongPrefix \o <<"W", "-", "2", " ", "C", "o", "p", "y", " ", "B">>}

\* the texts and the doc_type arguments of generate_reasoning: types of
\* TYPE_KEYWORDS and one that is not a key of it
ReasoningTexts == {text \in ThreadTexts : Contains(text, <<"S", "t", "a", "t", "e", "m", "e", "n", "t">>)}
ReasoningLabels ==
    {TypeLabels[1], TypeLabels[3], W2Label, <<"O", "t", "h", "e", "r">>}

\* the texts of the concurrent calls for which classify takes the keyword
\* override, and what generate_reasoning returns for the texts and types
OverrideTexts == {text \in ThreadTexts : KeywordOverride(text)}
ReasoningOf ==
    [text \in ReasoningTexts |->
        [label \in ReasoningLabels |-> GenerateReasoning(text, label)]]

\* The calls that run at the same time on one classifier
ConcurrentInit ==
    /\ InitExtraction
    /\ entry = "threads"
    /\ words = <<>>
    /\ coordinates = <<>>
    /\ combined_text = <<>>
    /\ doctr_model = TRUE
    /\ doc_type = None
    /\ visualization = None
    /\ box_regions = BoxIds
    /\ description_embeddings \in PrototypeSets

\* what a finished call of a thread returned or raised
ClassifyReturned(label, conf) ==
    [k |-> "result", fields |-> [label |-> label, confidence |-> conf], error |-> ""]
ReasoningReturned(statement) ==
    [k |-> "result", fields |-> [statement |-> statement], error |-> ""]

\* classify, lines 86-94: thread t calls classify(text); the keyword
\* override returns at once, otherwise the sample goes to model.encode
ThreadClassify(t) ==
    /\ entry = "threads"
    /\ threads[t].pc = "idle"
    /\ \E text \in ThreadTexts :
          threads' = [threads EXCEPT ![t] =
              IF text \in OverrideTexts
              THEN [@ EXCEPT !.pc = "done", !.op = "classify", !.text = text,
                             !.prototypes = description_embeddings,
                             !.result = ClassifyReturned(W2Label, OverrideConfidence)]
              ELSE [@ EXCEPT !.pc = "encode", !.op = "classify", !.text = text,
                             !.prototypes = description_embeddings]]
    /\ UNCHANGED <<entry, doctr_model, doc_type, confidence, Document, visualization, box_regions,
                   pc, Extraction, outcome, description_embeddings, provider, history>>

\* classify, lines 96-97: model.encode returns the embedding of the sample
\* to thread t, or raises
ThreadEncode(t) ==
    /\ threads[t].pc = "encode"
    /\ \E e \in EncodeOutcomes(TextSample(threads[t].text)) :
          /\ provider' = IF e.ok THEN Put(provider, TextSample(threads[t].text), e.angle)
                         ELSE provider
          /\ threads' = [threads EXCEPT ![t] =
                 IF e.ok
                 THEN [@ EXCEPT !.pc = "score", !.text_embedding = Some(e.angle)]
                 ELSE [@ EXCEPT !.pc = "done", !.result = Exception("EncodeError")]]
    /\ UNCHANGED <<entry, doctr_model, doc_type, confidence, Document, visualization, box_regions,
                   pc, Extraction, outcome, description_embeddings, history>>

\* a classify that keeps the embedding of the text as the prototype of the
\* type it chose
ThreadScoreLearning(t) ==
    /\ threads[t].pc = "score"
    /\ LET r == EmbeddingResult(threads[t].text_embedding.v, description_embeddings)
       IN /\ threads' = [threads EXCEPT ![t] =
                 [@ EXCEPT !.pc = "done", !.result = ClassifyReturned(r.label, r.confidence)]]
          /\ description_embeddings' =
                 [description_embeddings EXCEPT ![r.label] = threads[t].text_embedding.v]
    /\ UNCHANGED <<entry, doctr_model, doc_type, confidence, Document, visualization, box_regions,
                   pc, Extraction, outcome, provider, history>>

\* classify, lines 99-112: thread t reads self.description_embeddings,
\* computes the similarities and returns the best match
ThreadScore(t) ==
    /\ threads[t].pc = "score"
    /\ LET r == EmbeddingResult(threads[t].text_embedding.v, description_embeddings)
       IN threads' = [threads EXCEPT ![t] =
              [@ EXCEPT !.pc = "done", !.result = ClassifyReturned(r.label, r.confidence)]]
    /\ UNCHANGED <<entry, doctr_model, doc_type, confidence, Document, visualization, box_regions,
                   pc, Extraction, outcome, description_embeddings, provider, history>>

\* thread t calls generate_reasoning(text, doc_type)
ThreadReasoning(t) ==
    /\ entry = "threads"
    /\ threads[t].pc = "idle"
    /\ \E text \in ReasoningTexts, label \in ReasoningLabels :
          threads' = [threads EXCEPT ![t] =
              [@ EXCEPT !.pc = "done", !.op = "generate_reasoning", !.text = text,
                        !.label = label, !.prototypes = description_embeddings,
                        !.result = ReasoningReturned(ReasoningOf[text][label])]]
    /\ UNCHANGED <<entry, doctr_model, doc_type, confidence, Document, visualization, box_regions,
                   pc, Extraction, outcome, description_embeddings, provider, history>>

ConcurrentNext ==
    \E t \in Threads :
        \/ ThreadClassify(t)
        \/ ThreadEncode(t)
        \/ ThreadScore(t)
        \/ ThreadReasoning(t)

ConcurrentSpec == ConcurrentInit /\ [][ConcurrentNext]_vars

\* ------------------------------------------------------------------------
\* Documents for the strategies that read the text
\* ------------------------------------------------------------------------

\* The pieces of these documents: a currency value after its label and
\* another after the number of its box; years away from the bottom of the
\* page; nine-digit numbers with and without hyphens; a value on the line
\* between two boxes; an empty word
FallbackSegments ==
    << << W(<<"M", "e", "d", "i", "c", "a", "r", "e">>, 4, 60, 14, 62),
          W(<<"w", "a", "g", "e", "s">>, 15, 60, 21, 62),
          W(<<"8", "0", ".", "0", "0">>, 22, 60, 28, 62),
          W(<<"5">>, 30, 60, 32, 62),
          W(<<"9", "0", ".", "0", "0">>, 34, 60, 40, 62) >>,
       << W(<<"2", "0", "2", "1">>, 10, 40, 16, 42) >>,
       << W(<<"2", "0", "2", "2">>, 20, 40, 26, 42) >>,
       << W(<<"2", "0", "2", "2">>, 30, 44, 36, 46),
          W(<<"2", "0", "2", "1">>, 40, 44, 46, 46),
          W(<<"2", "0", "2", "1">>, 50, 44, 56, 46) >>,
       << W(<<"0", "0", "0", "-", "0", "0", "-", "0", "0", "0", "0">>, 30, 9, 40, 11) >>,
       << W(<<"0", "0", "0", "0", "0", "0", "0", "0", "0">>, 10, 50, 20, 52) >>,
       << W(<<"1", "2", "3", "4", "5", "6", "7", "8", "9">>, 24, 50, 34, 52) >>,
       << W(<<"1", "0", "0", ".", "0", "0">>, 62, 16, 68, 18) >>,
       << W(<<"t", "h", "e">>, 60, 40, 64, 42), W(<<>>, 65, 40, 66, 42),
          W(<<"B", "i", "g">>, 67, 40, 72, 42) >> >>

\* such a document has at most MaxFallbackSegs pieces
MaxFallbackSegs == 2

FallbackInit ==
    /\ InitExtraction
    /\ entry \in {"targeted", "service"}
    /\ \E S \in SUBSET (1..Len(FallbackSegments)), framed \in BOOLEAN, word_layer \in BOOLEAN :
          LET entries == Entries(FallbackSegments, S, framed)
          IN /\ Cardinality(S) <= MaxFallbackSegs
             /\ entry = "targeted" => word_layer
             /\ words = IF word_layer THEN WordsOf(entries) ELSE <<>>
             /\ coordinates = IF word_layer THEN BoxesOf(entries) ELSE <<>>
             /\ combined_text = JoinedText(WordsOf(entries))
    /\ doctr_model \in (IF entry = "targeted" THEN BOOLEAN ELSE {TRUE})
    /\ doc_type \in {Some(W2Label), Some(<<"T", "a", "x", " ", "R", "e", "t", "u", "r", "n">>)}
    /\ visualization = IF entry = "targeted" /\ doctr_model /\ words # <<>>
                       THEN VisualizationPath ELSE None
    /\ description_embeddings \in {CHOOSE p \in PrototypeSets : TRUE}
    /\ box_regions = BoxIds

FallbackSpec == FallbackInit /\ [][Next]_vars

\* ------------------------------------------------------------------------
\* The properties
\* ------------------------------------------------------------------------

\* C1: the field map that extract_fields returns has exactly the keys of
\* the schema of the extractor of the document type, and every value in it
\* is a non-empty value or the sentinel "Not found"
C1_ExactSchema ==
    (entry = "targeted" /\ outcome.k = "result") =>
        /\ DOMAIN outcome.fields = GetFieldSchema(GetExtractor(doc_type.v))
        /\ \A f \in DOMAIN outcome.fields : Truthy(outcome.fields[f])

\* C2: in one run of extract_fields the methods of a field are evaluated in
\* their declared order, one after the other; no method of a field is
\* evaluated after one of its methods returned a non-empty value, and the
\* value recorded for the field is the value of that method
C2_FirstStrategyWins ==
    \A i \in 1..Len(calls) :
        /\ \A j \in 1..(i - 1) :
              calls[j].field = calls[i].field =>
                  /\ calls[j].method < calls[i].method
                  /\ ~Truthy(calls[j].value)
        /\ calls[i].method > 1 =>
              /\ i > 1
              /\ calls[i - 1].field = calls[i].field
              /\ calls[i - 1].method = calls[i].method - 1
        /\ Truthy(calls[i].value) => Get(first_pass, calls[i].field) = calls[i].value

\* a run whose loops are done, in which one field was resolved by its first
\* method and another one by its second method
C2_Witness ==
    /\ pc = "w2_repair_name"
    /\ \E i, j \in 1..Len(calls) :
          /\ calls[i].method = 1 /\ Truthy(calls[i].value)
          /\ calls[j].method = 2 /\ Truthy(calls[j].value)
          /\ Get(first_pass, calls[i].field) = calls[i].value
          /\ Get(first_pass, calls[j].field) = calls[j].value

\* C3: for a text whose lower-cased form contains a W-2 keyword and
\* "copy b", classify returns "W2 (Form W-2)" with confidence 0.95 and does
\* not call the embedding provider
C3_KeywordOverride ==
    \A i \in 1..Len(history) :
        LET lowered == StrLower(history[i].text)
        IN (/\ \E k \in 1..Len(w2_keywords) : Contains(lowered, w2_keywords[k])
            /\ Contains(lowered, <<"c", "o", "p", "y", " ", "b">>))
           => /\ history[i].k = "returned"
              /\ history[i].label = W2Label
              /\ history[i].confidence = 95
              /\ ~history[i].encoded

\* a text with "W-2" and "Copy B" in capitals was classified, against
\* prototypes whose best match for every embedding is not the W-2 label
C3_Witness ==
    \E i \in 1..Len(history) :
        /\ Contains(history[i].text, <<"W", "-", "2", " ", "C", "o", "p", "y", " ", "B">>)
        /\ history[i].label = W2Label
        /\ \A a \in Angles : EmbeddingResult(a, history[i].prototypes).label # W2Label

C5_FailureSurfaces ==
    /\ \A i \in 1..Len(history) :
          history[i].failed => history[i].k = "raised" /\ history[i].label = <<>>
    /\ (entry = "service" /\ history # <<>> /\ history[1].failed) =>
          /\ doc_type = None
          /\ outcome.k # "result"
          /\ pc \in {"service_raised", "done"}
          /\ pc = "done" => outcome = Exception("ProcessingError")

\* process_document ended with an error after encode failed
C5_Witness ==
    /\ entry = "service"
    /\ history # <<>> /\ history[1].failed /\ history[1].encoded
    /\ outcome = Exception("ProcessingError")

\* C6: extract_fields does not end with the exception of a strategy of one
\* field: it completes and resolves the other fields
C6_FieldIsolation ==
    /\ (\E i \in 1..Len(calls) : calls[i].value = Raised) => returned.k # "exception"
    /\ returned # Exception("IndexError")

\* C7: every currency field of a result of extract_fields consists of
\* digits and at most one decimal point
C7_CurrencyClean ==
    (pc = "extractor_returned" /\ returned.k = "result") =>
        \A f \in DOMAIN returned.fields :
            (f \in DefinedFields /\ FieldDef(f).data_type = "currency") =>
                LET value == returned.fields[f].v
                IN /\ \A k \in 1..Len(value) : value[k] \in Digits \cup {"."}
                   /\ Cardinality({k \in 1..Len(value) : value[k] = "."}) <= 1

\* C8: in a result of extract_fields with a control number and an employee
\* name, the employee name does not contain the control number
C8_NameWithoutControl ==
    (/\ pc = "extractor_returned" /\ returned.k = "result"
     /\ "control_number" \in DOMAIN returned.fields
     /\ "employee_name" \in DOMAIN returned.fields)
    => ~Contains(returned.fields["employee_name"].v, returned.fields["control_number"].v)

\* C9: federal_tax is extracted again, with the context word "Federal" and
\* box 2, exactly when the first pass left wages and federal_tax with the
\* same string; the final federal_tax is the re-extracted value when one
\* was found that differs from the duplicate, and the first-pass value
\* otherwise; wages keeps its first-pass value
C9_DuplicateRepair ==
    (pc \in {"w2_validate", "extractor_returned"} /\ calls # <<>>) =>
        LET first_tax == Get(first_pass, "federal_tax")
            duplicate == first_tax # None /\ first_tax = Get(first_pass, "wages")
        IN /\ reextracted.run = duplicate
           /\ reextracted.run =>
                 reextracted.value =
                     ExtractBoxValueWithContext(words, coordinates, combined_text,
                                                <<"2">>, <<"F", "e", "d", "e", "r", "a", "l">>)
           /\ Get(extracted_fields, "federal_tax") =
                 IF duplicate /\ Truthy(reextracted.value) /\ reextracted.value # first_tax
                 THEN reextracted.value ELSE first_tax
           /\ Get(extracted_fields, "wages") = Get(first_pass, "wages")
           /\ pc = "extractor_returned" =>
                 /\ Get(returned.fields, "federal_tax") = Get(extracted_fields, "federal_tax")
                 /\ Get(returned.fields, "wages") = Get(extracted_fields, "wages")

\* a result whose federal_tax is the re-extracted value, which differs from
\* the duplicate of the first pass
C9_Witness ==
    /\ pc = "extractor_returned"
    /\ reextracted.run
    /\ Truthy(reextracted.value)
    /\ Get(first_pass, "federal_tax") = Get(first_pass, "wages")
    /\ reextracted.value # Get(first_pass, "federal_tax")
    /\ Get(returned.fields, "federal_tax") = reextracted.value
    /\ Get(returned.fields, "wages") = Get(first_pass, "wages")

\* C10: when a block inside the region of box a contains an SSN-shaped
\* token, the employee_ssn of the result of extract_fields is that token of
\* the first such block in OCR order
C10_TemplateSsnWins ==
    (pc = "extractor_returned" /\ returned.k = "result" /\ calls # <<>>) =>
        LET InBoxA == {i \in CandidateBlocks(words, coordinates, "a") :
                          ReSearch(SsnShape, words[i], NoFlags).found}
        IN InBoxA # {} =>
              Get(returned.fields, "employee_ssn") =
                  FoundGroup0(words[Least(InBoxA)],
                              ReSearch(SsnShape, words[Least(InBoxA)], NoFlags))

\* C11: for a list of boxes whose extent is not degenerate, the extent
\* is the least and the greatest x and y of all the boxes, and the position
\* of every block is ((center.x - min_x) / width, (center.y - min_y) / height),
\* also for boxes with negative coordinates
C11_NormalizationFormula ==
    (entry = "prepare" /\ pc = "done" /\ coordinates # <<>>) =>
        LET xs == {coordinates[i][1] : i \in 1..Len(coordinates)}
                      \cup {coordinates[i][3] : i \in 1..Len(coordinates)}
            ys == {coordinates[i][2] : i \in 1..Len(coordinates)}
                      \cup {coordinates[i][4] : i \in 1..Len(coordinates)}
            width == Most(xs) - Least(xs)
            height == Most(ys) - Least(ys)
        IN (width # 0 /\ height # 0) =>
               /\ outcome.k = "text_blocks"
               /\ \A i \in 1..Len(coordinates) :
                      LET block == outcome.text_blocks[i]
                      IN /\ block.x[2] # 0
                         /\ block.y[2] # 0
                         /\ block.x[1] * (2 * width)
                                = (CenterX2(coordinates[i]) - 2 * Least(xs)) * block.x[2]
                         /\ block.y[1] * (2 * height)
                                = (CenterY2(coordinates[i]) - 2 * Least(ys)) * block.y[2]

\* C12: for a list of boxes whose extent is not degenerate, x, y, width and
\* height of every text block lie in [0, 1], whichever corner of a box is
\* given first
C12_UnitRange ==
    (/\ entry = "prepare" /\ pc = "done" /\ outcome.k = "text_blocks"
     /\ \E i, j \in 1..Len(coordinates) :
            \E p \in {1, 3}, q \in {1, 3} : coordinates[i][p] # coordinates[j][q]
     /\ \E i, j \in 1..Len(coordinates) :
            \E p \in {2, 4}, q \in {2, 4} : coordinates[i][p] # coordinates[j][q]) =>
        \A i \in 1..Len(outcome.text_blocks) :
            LET block == outcome.text_blocks[i]
            IN /\ RatioWithin(block.x[1], block.x[2], 0, 100)
               /\ RatioWithin(block.y[1], block.y[2], 0, 100)
               /\ RatioWithin(block.width[1], block.width[2], 0, 100)
               /\ RatioWithin(block.height[1], block.height[2], 0, 100)

\* C13: when the extent of the boxes has no width or no height, the
\* normalisation ends with an error and returns no text blocks
C13_DegenerateIsError ==
    (entry = "prepare" /\ pc = "done" /\ coordinates # <<>>) =>
        LET xs == {coordinates[i][1] : i \in 1..Len(coordinates)}
                      \cup {coordinates[i][3] : i \in 1..Len(coordinates)}
            ys == {coordinates[i][2] : i \in 1..Len(coordinates)}
                      \cup {coordinates[i][4] : i \in 1..Len(coordinates)}
        IN (Most(xs) = Least(xs) \/ Most(ys) = Least(ys)) => outcome.k = "exception"

\* C14: validate_w2_extraction leaves the dict it is given as it was: the
\* same keys with the same values
C14_ValidateFrame == [][ValidateCall => extracted_fields' = extracted_fields]_vars

\* a dict with a malformed value has been validated, and the value is kept
C14_Witness ==
    /\ entry = "validate"
    /\ pc = "done"
    /\ outcome.k = "validation"
    /\ \E f \in DOMAIN extracted_fields \cap DOMAIN outcome.validation_results :
           /\ ~outcome.validation_results[f].is_valid
           /\ outcome.validation_results[f].value = extracted_fields[f]

\* C15: a required field that is absent from the dict is annotated as not
\* valid with the message "Required field is missing", which is not the
\* message for a malformed value of the field; a field that is present
\* never has that message; an absent field that is not required has no
\* annotation
C15_MissingRequired ==
    (entry = "validate" /\ pc = "done" /\ outcome.k = "validation") =>
        \A f \in DefinedFields :
            LET results == outcome.validation_results
            IN IF f \in DOMAIN extracted_fields
               THEN f \in DOMAIN results /\ results[f].message # "Required field is missing"
               ELSE IF FieldDef(f).required
               THEN /\ f \in DOMAIN results
                    /\ ~results[f].is_valid
                    /\ results[f].message = "Required field is missing"
                    /\ results[f].message # ValidationMessage(f)
               ELSE f \notin DOMAIN results

\* a dict without wages and without control_number, with a malformed SSN,
\* has been validated
C15_Witness ==
    /\ entry = "validate"
    /\ pc = "done"
    /\ outcome.k = "validation"
    /\ "wages" \notin DOMAIN extracted_fields
    /\ "control_number" \notin DOMAIN extracted_fields
    /\ "employee_ssn" \in DOMAIN extracted_fields
    /\ ~outcome.validation_results["employee_ssn"].is_valid

\* C16: get_extractor returns the W-2 extractor exactly for the W-2 label,
\* and for every other label, the empty one and None included, a generic
\* extractor that implements get_field_schema and extract_fields
C16_RegistryFallback ==
    (entry = "get_extractor" /\ pc = "done") =>
        /\ outcome.k = "extractor"
        /\ outcome.extractor = "W2Extractor" <=> doc_type = Some(W2Label)
        /\ doc_type # Some(W2Label) =>
               /\ outcome.extractor = "GenericDocumentExtractor"
               /\ {"get_field_schema", "extract_fields"} \subseteq Implements(outcome.extractor)

\* get_extractor has been called with None and returned the generic extractor
C16_Witness ==
    /\ entry = "get_extractor"
    /\ pc = "done"
    /\ doc_type = None
    /\ outcome.extractor = "GenericDocumentExtractor"

\* C17: when no words were read and the text of the document is not empty,
\* the extraction ends with a result in which a field that the regex over
\* the text finds (here the SSN of a W-2) has that value, not "Not found"
C17_TextOnlyFallback ==
    (/\ pc = "done"
     /\ words = <<>> \/ (entry = "targeted" /\ ~doctr_model)
     /\ StrStrip(combined_text) # <<>>
     /\ doc_type = Some(W2Label)
     /\ Truthy(ExtractSsn(<<>>, <<>>, combined_text))) =>
        /\ outcome.k = "result"
        /\ Get(outcome.fields, "employee_ssn") = ExtractSsn(<<>>, <<>>, combined_text)

C19_ConfidenceRange ==
    \A n \in 1..Len(history) :
        history[n].k = "returned" =>
            0 <= history[n].confidence /\ history[n].confidence <= 100

\* C20: on the embedding path classify returns a label whose similarity is
\* the greatest, with that similarity as confidence, and of the labels with
\* the greatest similarity the first in the order of TYPE_DESCRIPTIONS
C20_FirstMaximal ==
    \A n \in 1..Len(history) :
        (history[n].k = "returned" /\ history[n].encoded) =>
            LET call == history[n]
                score == [j \in 1..Len(TypeLabels) |->
                             CosSim(provider[TextSample(call.text)],
                                    call.prototypes[TypeLabels[j]])]
            IN \E k \in 1..Len(TypeLabels) :
                   /\ call.label = TypeLabels[k]
                   /\ call.confidence = score[k]
                   /\ \A j \in 1..Len(TypeLabels) : score[j] <= score[k]
                   /\ \A j \in 1..(k - 1) : score[j] < score[k]

\* a call on the embedding path where the second and a later label share
\* the greatest similarity, and the second label was returned
C20_Witness ==
    \E n \in 1..Len(history) :
        /\ history[n].k = "returned"
        /\ history[n].encoded
        /\ history[n].label = TypeLabels[2]
        /\ \E j \in 3..Len(TypeLabels) :
               CosSim(provider[TextSample(history[n].text)], history[n].prototypes[TypeLabels[j]])
                   = history[n].confidence

\* C21: under every interleaving of concurrent classify and
\* generate_reasoning calls on one classifier, no step changes the cache of
\* prototype embeddings, and a call that returns, returns what it returns
\* when it runs alone against the cache it was started with: the override
\* label, or the best match of the embedding of its sample, or the
\* reasoning of its text and type
C21_CacheImmutable ==
    [][/\ description_embeddings' = description_embeddings
       /\ \A t \in Threads :
             (threads[t].pc # "done" /\ threads'[t].pc = "done"
                 /\ threads'[t].result.k = "result") =>
                LET call == threads'[t]
                    sample == SubSeq(call.text, 1, MinOf(Len(call.text), 512))
                    alone ==
                        IF call.op = "generate_reasoning"
                        THEN ReasoningReturned(ReasoningOf[call.text][call.label])
                        ELSE IF call.text \in OverrideTexts
                        THEN ClassifyReturned(W2Label, 95)
                        ELSE LET r == EmbeddingResult(provider'[sample], call.prototypes)
                             IN ClassifyReturned(r.label, r.confidence)
                IN call.result = alone]_vars

\* a classify call has returned a best match while another call with the
\* same text was between model.encode and the similarities
C21_Witness ==
    \E t, u \in Threads :
        /\ t # u
        /\ threads[t].pc = "done" /\ threads[t].op = "classify"
        /\ threads[t].text_embedding # None
        /\ threads[t].result.k = "result"
        /\ threads[u].pc = "score"
        /\ threads[u].text = threads[t].text

\* the texts of the concurrent calls whose first 512 characters do not
\* trigger the keyword override while the whole text does
C25_LateKeywordTexts ==
    {text \in ThreadTexts :
        /\ Len(text) > 512
        /\ ~KeywordOverride(SubSeq(text, 1, 512))
        /\ Contains(StrLower(text), <<"w", "-", "2", " ", "c", "o", "p", "y", " ", "b">>)}

\* C25: the embedding provider is called with the first 512 characters of
\* the text and with nothing else, two classify calls on the embedding
\* path whose texts have the same first 512 characters return the same
\* label and confidence, and a text whose keywords stand after character
\* 512 takes the keyword override
C25_PrefixOnly ==
    /\ \A sample \in DOMAIN provider :
          /\ Len(sample) <= 512
          /\ \E t \in Threads :
                /\ threads[t].op = "classify"
                /\ sample = SubSeq(threads[t].text, 1, MinOf(Len(threads[t].text), 512))
    /\ \A t \in Threads :
          threads[t].text_embedding # None =>
              /\ SubSeq(threads[t].text, 1, MinOf(Len(threads[t].text), 512)) \in DOMAIN provider
              /\ threads[t].text \notin DOMAIN provider
    /\ \A t, u \in Threads :
          (/\ threads[t].pc = "done" /\ threads[t].text_embedding # None
           /\ threads[u].pc = "done" /\ threads[u].text_embedding # None
           /\ threads[t].result.k = "result" /\ threads[u].result.k = "result"
           /\ SubSeq(threads[t].text, 1, MinOf(Len(threads[t].text), 512))
                 = SubSeq(threads[u].text, 1, MinOf(Len(threads[u].text), 512)))
          => threads[t].result = threads[u].result
    /\ \A t \in Threads :
          (threads[t].op = "classify" /\ threads[t].text \in C25_LateKeywordTexts) =>
              /\ threads[t].pc = "done"
              /\ threads[t].text_embedding = None
              /\ threads[t].result = ClassifyReturned(W2Label, 95)

\* two different texts of more than 512 characters that are the same up to
\* character 512 were embedded and classified
C25_Witness ==
    \E t, u \in Threads :
        /\ threads[t].pc = "done" /\ threads[t].text_embedding # None
        /\ threads[u].pc = "done" /\ threads[u].text_embedding # None
        /\ threads[t].result.k = "result" /\ threads[u].result.k = "result"
        /\ threads[t].text # threads[u].text
        /\ Len(threads[t].text) > 512 /\ Len(threads[u].text) > 512
        /\ SubSeq(threads[t].text, 1, 512) = SubSeq(threads[u].text, 1, 512)

RECURSIVE C26_Names(_, _)
\* the keywords that a list written with ", " between them names
C26_Names(list, word) ==
    IF list = <<>> THEN <<word>>
    ELSE IF Len(list) >= 2 /\ list[1] = "," /\ list[2] = " "
    THEN <<word>> \o C26_Names(SubSeq(list, 3, Len(list)), <<>>)
    ELSE C26_Names(Tail(list), Append(word, list[1]))

C29_GenericDispatch ==
    (/\ entry = "service"
     /\ pc = "done"
     /\ StrStrip(combined_text) # <<>>
     /\ doc_type # None
     /\ doc_type.v # W2Label)
    => /\ outcome.k = "result"
       /\ GenericSchema \subseteq DOMAIN outcome.fields

\* C27: every field of the W-2 schema has an extraction strategy: when
\* W2Extractor.extract_fields has returned, it has tried at least one
\* strategy for every field of the schema
C27_EveryFieldHasStrategy ==
    (returned.k = "result" /\ calls # <<>>) =>
        \A field \in W2Schema :
            \E k \in 1..Len(calls) : calls[k].field = field

\* C22: when the second method of a currency box field is called (the
\* region of the template gave nothing) and the regex anchored to the label
\* of the field finds a value in the text, that value is the result: neither
\* the search around the box number nor a regex without the label comes
\* before it
C22_LabelAnchoredFirst ==
    \A k \in 1..Len(calls) :
        (/\ calls[k].method = 2
         /\ calls[k].field \in {"wages", "federal_tax", "social_security_wages",
                                "social_security_tax", "medicare_wages", "medicare_tax"})
        => LET WithAnchored(anchored) ==
                   anchored.found =>
                       calls[k].value = Some(DropDollar(Group1(combined_text, anchored)))
           IN WithAnchored(ReSearch(BoxLabelPattern(BoxNumber(calls[k].field)),
                                    combined_text, IgnoreCaseDotAll))

\* C28: when the text blocks of a W-2 are prepared, no block is inside the
\* regions of two different boxes
C28_RegionsDisjoint ==
    (pc \notin {"call", "w2_prepare", "generic"} /\ calls # <<>>) =>
        \A i \in 1..Len(words) :
            \A b1, b2 \in BoxIds :
                (/\ i \in CandidateBlocks(words, coordinates, b1)
                 /\ i \in CandidateBlocks(words, coordinates, b2))
                => b1 = b2

\* C24: no strategy gives extract_fields an employee_ssn whose nine digits
\* are 000000000 or 999999999, with or without hyphens
C24_SsnDenylist ==
    /\ \A k \in 1..Len(calls) :
          (calls[k].field = "employee_ssn" /\ calls[k].value.k = "val") =>
              StrRemove(calls[k].value.v, <<"-">>) \notin SsnDenylist
    /\ Get(returned.fields, "employee_ssn").k = "val" =>
          StrRemove(returned.fields["employee_ssn"].v, <<"-">>) \notin SsnDenylist

\* C30: when employee_ssn and employer_ein are both written from a
\* nine-digit run without hyphens (neither value stands in the text as it is
\* reported), the two are not the same nine digits
C30_DistinctRuns ==
    LET ssn == Get(extracted_fields, "employee_ssn")
        ein == Get(extracted_fields, "employer_ein")
    IN (/\ ssn.k = "val" /\ ein.k = "val"
        /\ ~Contains(combined_text, ssn.v)
        /\ ~Contains(combined_text, ein.v))
       => StrRemove(ssn.v, <<"-">>) # StrRemove(ein.v, <<"-">>)

\* C23: when the second method of tax_year is called and the text has no
\* year after one of the context phrases and no year word at the bottom of
\* the form, the value is a year of the text that no other year outnumbers,
\* and every other year with as many occurrences comes later in the text;
\* so it is the one year, if the text has one
C23_MostFrequentYear ==
    \A k \in 1..Len(calls) :
        (calls[k].field = "tax_year" /\ calls[k].method = 2) =>
            LET With(years) ==
                    LET Count(y) == Cardinality({j \in 1..Len(years) : years[j] = y})
                        First(y) == Least({j \in 1..Len(years) : years[j] = y})
                        Distinct == {years[j] : j \in 1..Len(years)}
                    IN (/\ years # <<>>
                        /\ \A p \in 1..Len(YearContextPatterns) :
                              ~ReSearch(YearContextPatterns[p], combined_text, NoFlags).found
                        /\ \A w \in 1..Len(words) :
                              ~(/\ ReMatch(YearShape, words[w], NoFlags).found
                                /\ coordinates[w][2] + coordinates[w][4] > 140))
                       => /\ calls[k].value.k = "val"
                          /\ calls[k].value.v \in Distinct
                          /\ \A y \in Distinct \ {calls[k].value.v} :
                                \/ Count(y) < Count(calls[k].value.v)
                                \/ /\ Count(y) = Count(calls[k].value.v)
                                   /\ First(calls[k].value.v) < First(y)
            IN With(ReFindAll(YearPattern, combined_text, NoFlags))

\* the generic strategy chose between two years that occur twice each, and
\* took the one that comes first in the text
C23_Witness ==
    \E k \in 1..Len(calls) :
        /\ calls[k].field = "tax_year" /\ calls[k].method = 2
        /\ calls[k].value = Some(<<"2", "0", "2", "2">>)
        /\ combined_text = <<"F", "o", "r", "m", " ", "2", "0", "2", "2", " ", "2", "0", "2", "2", " ", "2", "0", "2", "1", " ", "2", "0", "2", "1", " ", "O", "M", "B", " ">>

====
